---- MODULE Spec2Model ----
(***************************************************************************)
(* A model of the RepoLens indexing core:                                  *)
(*   - librarian/embeddings.py : RateLimitedQueue, EmbeddingEngine         *)
(*   - librarian/cache.py      : EmbeddingCache, FileHashCache             *)
(*   - librarian/watcher.py    : IndexingPipeline, LibrarianWatcher        *)
(*   - librarian/db.py         : LanceDBManager                            *)
(*   - librarian/chunking      : BaseChunker, CSharpChunker                *)
(* The specifications share the variables; each drives one part of the     *)
(* program (the queue, the engine, the pipeline, the watcher, the chunker) *)
(* and leaves the variables of the other parts unchanged.                  *)
(***************************************************************************)
EXTENDS Integers, Sequences, FiniteSets, TLC

(***************************************************************************)
(* Bounds of the model and constants of the program.                       *)
(***************************************************************************)
\* OLLAMA_MAX_CONCURRENT default, the permits of the semaphore.
MaxConcurrent == 2
\* max_retries of _get_embedding_direct (a parameter; the default is 5).
MaxRetries == 3
\* max_workers of the engine's per-batch thread pool (a parameter).
MaxWorkers == 2
\* the length of the hard-coded zero vector of _embed_parallel.
ZeroVectorDim == 768

\* The embedding dimensions a configured Provider model may have
\* (nomic-embed-text: 768, mxbai-embed-large: 1024).
ProviderDims == {768, 1024}

\* Texts are sequences of tokens, so that f"{prefix}{t}" is concatenation.
RawTexts == {<<"a">>, <<"b">>}
\* process_file embeds with the document prefix.
Prefixes == {<<"search_document: ">>}
\* The input lists embed_batch is called with.
BatchInputs == {<< >>, <<<<"b">>>>, <<<<"b">>, <<"a">>>>, <<<<"a">>, <<"a">>, <<"b">>>>}
\* The callers of the engine: one batch caller thread, one caller that
\* may use embed_batch or embed_sync.
Callers == {"c1", "c2"}
InputsOf(c) == IF c = "c1" THEN BatchInputs ELSE {<<<<"a">>>>}
MaxBatch == 3

VARIABLES
  \* ---- RateLimitedQueue
  sem,          \* free permits of _semaphore
  stats,        \* _stats: queued_requests, active_requests
  gate,         \* _time_lock, _last_request_time and the clock
  \* ---- EmbeddingEngine / EmbeddingCache / Provider
  providerDim,  \* the dimension of the vectors the configured model returns
  cache,        \* the persistent EmbeddingCache: content hash -> vector
  lru,          \* the in-process lru_cache of _get_embedding_lru_cached
  call,         \* per caller: the embed_batch / embed_sync call in progress
  task,         \* per (caller, j): one _get_embedding_direct execution
  firstVec,     \* history: the vector first stored in the cache per hash
  \* ---- file system, FileHashCache, LanceDB table, IndexingPipeline
  fs,           \* per path: the file (exists, content, mtime)
  fileCache,    \* the file_hashes table: path -> record
  store,        \* the rows of the LanceDB table
  run,          \* per worker thread: the process_file execution in progress
  batch,        \* the process_files_parallel / process_files_batch call
  \* ---- LibrarianWatcher
  watch,        \* the event handler, the clock and pending_summaries
  \* ---- CSharpChunker
  chunker       \* the chunk_file call of one file and what it returned

embedVars == <<sem, stats, gate, providerDim, cache, lru, call, task, firstVec>>
pipeVars == <<fs, fileCache, store, run, batch>>
vars == <<embedVars, pipeVars, watch, chunker>>

(***************************************************************************)
(* Values.                                                                 *)
(***************************************************************************)
Min(x, y) == IF x <= y THEN x ELSE y
Indices(n) == [i \in 1..n |-> i]

\* "no vector": None in results, a missing row in the cache.
NoVec == [kind |-> "none", dim |-> 0, of |-> << >>]
\* response.json()["embedding"]: the Provider's vector for the prompt.
ProviderVector(text) == [kind |-> "provider", dim |-> providerDim, of |-> text]
\* [0.0] * 768, the fallback of _embed_parallel.
ZeroVector == [kind |-> "zero", dim |-> ZeroVectorDim, of |-> << >>]

\* f"{prefix}{t}"
Prefixed(prefix, t) == prefix \o t
AllTexts == {Prefixed(p, t) : p \in Prefixes, t \in RawTexts}
\* EmbeddingCache.hash_content: sha256 of the bytes (collision free here).
HashContent(text) == [sha256 |-> text]
Hashes == {HashContent(t) : t \in AllTexts}

Tasks == Callers \X (1..MaxBatch)
\* max: the max_retries the execution was called with; last: the answer
\* to the request of the current iteration; sleeps and wait: the backoff
\* sleeps begun so far and the seconds of the latest one
IdleTask == [pc |-> "none", text |-> << >>, attempt |-> 0, tries |-> 0,
             only500 |-> TRUE, after |-> "-", out |-> "-",
             max |-> MaxRetries, last |-> "-", sleeps |-> 0, wait |-> 0]
IdleCall == [kind |-> "idle", pc |-> "idle", texts |-> << >>, cached |-> << >>,
             uidx |-> << >>, new |-> << >>, res |-> << >>, raised |-> FALSE]
\* The answers of the Provider to one POST /api/embeddings.
Responses == {"ok", "500", "503", "404", "timeout"}

(***************************************************************************)
(* EmbeddingCache (cache.py) as pure operators on the table.               *)
(***************************************************************************)
\* get_batch: the rows found for the hashes, as a partial map.
GetBatch(cch, hashes) == [h \in {x \in hashes : cch[x].kind # "none"} |-> cch[h]]

\* set / set_batch: INSERT OR REPLACE, item after item.
RECURSIVE SetBatch(_, _)
SetBatch(cch, items) ==
  IF items = << >> THEN cch
  ELSE SetBatch([cch EXCEPT ![Head(items)[1]] = Head(items)[2]], Tail(items))

(***************************************************************************)
(* embed_batch (embeddings.py) as pure operators.                          *)
(***************************************************************************)
\* the loop of lines 361-368: the indices whose hash is not in `cached`.
UncachedIndices(texts, cached) ==
  SelectSeq(Indices(Len(texts)), LAMBDA i : HashContent(texts[i]) \notin DOMAIN cached)

\* results after the same loop: the cached vector at a hit, None at a miss.
HitResults(texts, cached) ==
  [i \in 1..Len(texts) |->
     IF HashContent(texts[i]) \in DOMAIN cached THEN cached[HashContent(texts[i])] ELSE NoVec]

\* lines 384-385: results[idx] = new_embeddings[i] for i, idx in enumerate(uncached_indices)
MergeResults_ByPosition(res, uidx, new) ==
  [i \in 1..Len(res) |-> IF i <= Len(new) THEN new[i] ELSE res[i]]
MergeResults(res, uidx, new) ==
  [i \in 1..Len(res) |->
     IF \E j \in 1..Len(uidx) : uidx[j] = i
       THEN new[CHOOSE j \in 1..Len(uidx) : uidx[j] = i]
       ELSE res[i]]

\* lines 404-409 of _embed_parallel: the entry of one completed future.
FutureResult(t) == IF t.out = "ok" THEN ProviderVector(t.text) ELSE ZeroVector

(***************************************************************************)
(* RateLimitedQueue and _get_embedding_direct, one task per execution.     *)
(* pc of a task: none, queued (submitted to the pool), loop (top of the    *)
(* for loop), wait (blocked on the semaphore), admit (permit taken), gate  *)
(* (stats updated, at the interval gate), post (request sent), sleep       *)
(* (backoff inside the except clause), finally, relsem, done.  Where the   *)
(* clock is modelled, interval: inside `with self._time_lock`.             *)
(***************************************************************************)
TasksOf(c) == {w \in Tasks : w[1] = c}
Running(c) == {w \in TasksOf(c) : task[w].pc \notin {"none", "queued", "done"}}
\* the tasks that hold a permit of the semaphore
InFlight ==
  {w \in Tasks : task[w].pc \in {"admit", "gate", "interval", "post", "sleep", "finally", "relsem"}}

\* threading.Semaphore.acquire blocks while no permit is free.
SemaphoreFree_NoBlock(s) == TRUE
SemaphoreFree(s) == s > 0

\* for attempt in range(max_retries): is there another iteration?
LoopContinues_OneLess(attempt, max_retries) == attempt + 1 < max_retries - 1
LoopContinues(attempt, max_retries) == attempt + 1 < max_retries

\* min(2 ** attempt, 16), the seconds of a backoff sleep
BackoffWait_Uncapped(attempt) == 2 ^ attempt
BackoffWait(attempt) == Min(2 ^ attempt, 16)

\* min(len(texts), self.max_workers)
NumWorkers(n) == Min(n, MaxWorkers)

\* the except clauses of lines 275-296: where the task goes after a
\* response and how the iteration ends.
Handle_RetryClientError(r, attempt, max_retries) ==
  CASE r = "ok" -> [pc |-> "finally", after |-> "return"]
    [] r \in {"500", "404"} /\ attempt < max_retries - 1 -> [pc |-> "sleep", after |-> "continue"]
    [] r \in {"500", "404"} /\ ~(attempt < max_retries - 1) -> [pc |-> "finally", after |-> "continue"]
    [] r = "503" -> [pc |-> "finally", after |-> "raise"]
    [] r = "timeout" /\ attempt < max_retries - 1 -> [pc |-> "sleep", after |-> "continue"]
    [] OTHER -> [pc |-> "finally", after |-> "raise"]
Handle_RaiseSkipsRelease(r, attempt, max_retries) ==
  CASE r = "ok" -> [pc |-> "finally", after |-> "return"]
    [] r = "500" /\ attempt < max_retries - 1 -> [pc |-> "sleep", after |-> "continue"]
    [] r = "500" /\ ~(attempt < max_retries - 1) -> [pc |-> "finally", after |-> "continue"]
    [] r \in {"503", "404"} -> [pc |-> "done", after |-> "raise"]
    [] r = "timeout" /\ attempt < max_retries - 1 -> [pc |-> "sleep", after |-> "continue"]
    [] OTHER -> [pc |-> "done", after |-> "raise"]
Handle(r, attempt, max_retries) ==
  CASE r = "ok" -> [pc |-> "finally", after |-> "return"]
    [] r = "500" /\ attempt < max_retries - 1 -> [pc |-> "sleep", after |-> "continue"]
    [] r = "500" /\ ~(attempt < max_retries - 1) -> [pc |-> "finally", after |-> "continue"]
    [] r \in {"503", "404"} -> [pc |-> "finally", after |-> "raise"]
    [] r = "timeout" /\ attempt < max_retries - 1 -> [pc |-> "sleep", after |-> "continue"]
    [] OTHER -> [pc |-> "finally", after |-> "raise"]

\* the task after the answer r: the handler's branch, and the sleep it
\* begins when it backs off
Handled(t, r) ==
  LET h == Handle(r, t.attempt, t.max)
  IN [t EXCEPT !.pc = h.pc, !.after = h.after, !.last = r,
               !.only500 = @ /\ r = "500",
               !.sleeps = IF h.pc = "sleep" THEN @ + 1 ELSE @,
               !.wait = IF h.pc = "sleep" THEN BackoffWait(t.attempt) ELSE @]

\* after the finally clause: the return, the raise or the next iteration;
\* when the loop is exhausted line 300 raises last_error.
AfterRelease(t) ==
  CASE t.after = "return" -> [t EXCEPT !.pc = "done", !.out = "ok", !.last = "-"]
    [] t.after = "raise" -> [t EXCEPT !.pc = "done", !.out = "err", !.last = "-"]
    [] OTHER -> IF LoopContinues(t.attempt, t.max)
                  THEN [t EXCEPT !.pc = "loop", !.attempt = @ + 1, !.after = "-", !.last = "-"]
                  ELSE [t EXCEPT !.pc = "done", !.out = "err", !.last = "-"]

\* executor.submit / the pool's worker threads: tasks start in submission
\* order, at most num_workers of one pool run at a time.
TaskStart(c, j) ==
  /\ call[c].pc = "parallel"
  /\ task[<<c, j>>].pc = "queued"
  /\ \A k \in 1..(j - 1) : task[<<c, k>>].pc # "queued"
  /\ Cardinality(Running(c)) < NumWorkers(Len(call[c].uidx))
  /\ task' = [task EXCEPT ![<<c, j>>].pc = "loop"]
  /\ UNCHANGED <<sem, stats, providerDim, cache, lru, call, firstVec, pipeVars, watch, chunker, gate>>

\* acquire, lines 138-139
AcquireEnqueue(w) ==
  /\ task[w].pc = "loop"
  /\ stats' = [stats EXCEPT !.queued = @ + 1]
  /\ task' = [task EXCEPT ![w].pc = "wait"]
  /\ UNCHANGED <<sem, providerDim, cache, lru, call, firstVec, pipeVars, watch, chunker, gate>>

\* acquire, line 142
AcquireSemaphore(w) ==
  /\ task[w].pc = "wait"
  /\ SemaphoreFree(sem)
  /\ sem' = sem - 1
  /\ task' = [task EXCEPT ![w].pc = "admit"]
  /\ UNCHANGED <<stats, providerDim, cache, lru, call, firstVec, pipeVars, watch, chunker, gate>>

\* acquire, lines 144-147
AcquireStats(w) ==
  /\ task[w].pc = "admit"
  /\ stats' = [stats EXCEPT !.queued = @ - 1, !.active = @ + 1]
  /\ task' = [task EXCEPT ![w].pc = "gate"]
  /\ UNCHANGED <<sem, providerDim, cache, lru, call, firstVec, pipeVars, watch, chunker, gate>>

\* acquire, lines 150-155, then client.post is issued
AcquireGate(w) ==
  /\ task[w].pc = "gate"
  /\ task' = [task EXCEPT ![w].pc = "post", ![w].tries = @ + 1]
  /\ UNCHANGED <<sem, stats, providerDim, cache, lru, call, firstVec, pipeVars, watch, chunker, gate>>

\* the Provider answers; lines 273-296
ProviderRespond(w, r) ==
  /\ task[w].pc = "post"
  /\ task' = [task EXCEPT ![w] = Handled(@, r)]
  /\ UNCHANGED <<sem, stats, providerDim, cache, lru, call, firstVec, pipeVars, watch, chunker, gate>>

\* time.sleep(min(2 ** attempt, 16)) ends
BackoffDone(w) ==
  /\ task[w].pc = "sleep"
  /\ task' = [task EXCEPT ![w].pc = "finally"]
  /\ UNCHANGED <<sem, stats, providerDim, cache, lru, call, firstVec, pipeVars, watch, chunker, gate>>

\* release, lines 159-160
ReleaseStats(w) ==
  /\ task[w].pc = "finally"
  /\ stats' = [stats EXCEPT !.active = @ - 1]
  /\ task' = [task EXCEPT ![w].pc = "relsem"]
  /\ UNCHANGED <<sem, providerDim, cache, lru, call, firstVec, pipeVars, watch, chunker, gate>>

\* release, line 161, then the return, the raise or the next iteration
ReleaseSemaphore(w) ==
  /\ task[w].pc = "relsem"
  /\ sem' = sem + 1
  /\ task' = [task EXCEPT ![w] = AfterRelease(@)]
  /\ UNCHANGED <<stats, providerDim, cache, lru, call, firstVec, pipeVars, watch, chunker, gate>>

\* ---- The interval gate of acquire (lines 150-155) against a clock.
\* Time is counted in halves of min_interval = 1.0 / requests_per_second.
MinInterval == 2
\* the clock stops at MaxClock
MaxClock == 7
NoTask == <<"-", 0>>
\* never: no passage yet
Never == 0 - 1
\* lock: the holder of _time_lock; last: _last_request_time; now:
\* time.time(); wake: when the holder's time.sleep returns.  History: pass
\* and prev, the times of the latest passage and of the one before.
\* At the start _last_request_time is 0.0 and the clock is far from 0.
IdleGate == [lock |-> NoTask, last |-> 0, now |-> MinInterval, wake |-> 0,
             prev |-> Never, pass |-> Never]

\* lines 151-154: now = time.time(); elapsed = now - last; the holder
\* sleeps min_interval - elapsed when elapsed < min_interval
GateWake_NoSleep(now, last) == now
GateWake(now, last) ==
  LET elapsed == now - last
  IN IF elapsed < MinInterval THEN now + (MinInterval - elapsed) ELSE now

\* time passes
ClockTick ==
  /\ gate.now < MaxClock
  /\ gate' = [gate EXCEPT !.now = @ + 1]
  /\ UNCHANGED <<sem, stats, providerDim, cache, lru, call, task, firstVec, pipeVars, watch, chunker>>

\* acquire lines 150-154: the thread takes _time_lock, reads the clock
\* and begins its sleep
GateEnter(w) ==
  /\ task[w].pc = "gate"
  /\ gate.lock = NoTask
  /\ gate' = [gate EXCEPT !.lock = w, !.wake = GateWake(gate.now, gate.last)]
  /\ task' = [task EXCEPT ![w].pc = "interval"]
  /\ UNCHANGED <<sem, stats, providerDim, cache, lru, call, firstVec, pipeVars, watch, chunker>>

\* acquire line 155 once the sleep has returned: _last_request_time =
\* time.time(), the lock is released, acquire returns and client.post is
\* issued
GateLeave(w) ==
  /\ task[w].pc = "interval"
  /\ gate.lock = w
  /\ gate.now >= gate.wake
  /\ gate' = [gate EXCEPT !.lock = NoTask, !.last = gate.now,
                          !.prev = gate.pass, !.pass = gate.now]
  /\ task' = [task EXCEPT ![w].pc = "post", ![w].tries = @ + 1]
  /\ UNCHANGED <<sem, stats, providerDim, cache, lru, call, firstVec, pipeVars, watch, chunker>>

\* ---- The interval gate without the clock: the holder of _time_lock
\* waits for nothing but its own time.sleep, which returns.
\* acquire line 150: the thread takes _time_lock
LockEnter(w) ==
  /\ task[w].pc = "gate"
  /\ gate.lock = NoTask
  /\ gate' = [gate EXCEPT !.lock = w]
  /\ task' = [task EXCEPT ![w].pc = "interval"]
  /\ UNCHANGED <<sem, stats, providerDim, cache, lru, call, firstVec, pipeVars, watch, chunker>>

\* acquire lines 151-155: the sleep has returned, the lock is released,
\* acquire returns and client.post is issued
LockLeave(w) ==
  /\ task[w].pc = "interval"
  /\ gate.lock = w
  /\ gate' = [gate EXCEPT !.lock = NoTask]
  /\ task' = [task EXCEPT ![w].pc = "post", ![w].tries = @ + 1]
  /\ UNCHANGED <<sem, stats, providerDim, cache, lru, call, firstVec, pipeVars, watch, chunker>>

\* ---- The same code in two steps per attempt, used where the callers of
\* the engine are modelled: acquire (lines 136-155) up to client.post, and
\* the response with its handler, its backoff sleep and release.
Acquire(w) ==
  /\ task[w].pc = "loop"
  /\ SemaphoreFree(sem)
  /\ sem' = sem - 1
  /\ stats' = [stats EXCEPT !.active = @ + 1]
  /\ task' = [task EXCEPT ![w].pc = "post", ![w].tries = @ + 1]
  /\ UNCHANGED <<providerDim, cache, lru, call, firstVec, pipeVars, watch, chunker, gate>>

Respond(w, r) ==
  /\ task[w].pc = "post"
  /\ sem' = sem + 1
  /\ stats' = [stats EXCEPT !.active = @ - 1]
  /\ task' = [task EXCEPT ![w] =
        AfterRelease([Handled(@, r) EXCEPT !.pc = "finally"])]
  /\ UNCHANGED <<providerDim, cache, lru, call, firstVec, pipeVars, watch, chunker, gate>>

\* ---- Threads that call _get_embedding_direct, for the queue on its own.
QueueThreads == {<<"c1", 1>>, <<"c1", 2>>, <<"c2", 1>>}

DirectCall(w) ==
  /\ task[w].pc = "none"
  /\ task' = [task EXCEPT ![w] = [IdleTask EXCEPT !.pc = "loop", !.text = <<"a">>]]
  /\ UNCHANGED <<sem, stats, providerDim, cache, lru, call, firstVec, pipeVars, watch, chunker, gate>>

DirectReturn(w) ==
  /\ task[w].pc = "done"
  /\ task' = [task EXCEPT ![w] = IdleTask]
  /\ UNCHANGED <<sem, stats, providerDim, cache, lru, call, firstVec, pipeVars, watch, chunker, gate>>

\* ---- One thread that calls _get_embedding_direct(text, max_retries)
\* with any max_retries up to MaxMaxRetries, so that the backoff reaches
\* its cap.
MaxMaxRetries == 7
RetryThreads == {<<"c2", 1>>}

RetryCall(w, max_retries) ==
  /\ task[w].pc = "none"
  /\ task' = [task EXCEPT ![w] = [IdleTask EXCEPT !.pc = "loop", !.text = <<"a">>,
                                                  !.max = max_retries]]
  /\ UNCHANGED <<sem, stats, providerDim, cache, lru, call, firstVec, pipeVars, watch, chunker, gate>>

(***************************************************************************)
(* embed_batch and embed_sync, one call per caller at a time.              *)
(* pc of a batch call: parallel (_embed_parallel running), store (all      *)
(* futures collected, before set_batch), merge, ret.  pc of a sync call:   *)
(* get (lru miss, before cache.get), direct, ret.                          *)
(***************************************************************************)
\* history: the vector a hash held after the first commit that stored it.
FirstStored(cch) == [h \in Hashes |-> IF firstVec[h].kind = "none" THEN cch[h] ELSE firstVec[h]]

\* embed_batch lines 348-372: prefix, hash, one get_batch, partition,
\* and the submission of the misses to the pool (line 402).
EmbedBatch(c, texts, prefix) ==
  /\ call[c].pc = "idle"
  /\ LET pt == [i \in 1..Len(texts) |-> Prefixed(prefix, texts[i])]
         cached == GetBatch(cache, {HashContent(pt[i]) : i \in 1..Len(pt)})
         uidx == UncachedIndices(pt, cached)
     IN /\ call' = [call EXCEPT ![c] =
              [kind |-> "batch", pc |-> IF uidx = << >> THEN "ret" ELSE "parallel",
               texts |-> pt, cached |-> cached, uidx |-> uidx, new |-> << >>,
               res |-> HitResults(pt, cached), raised |-> FALSE]]
        /\ task' = [w \in Tasks |->
              IF w[1] = c /\ w[2] <= Len(uidx)
                THEN [IdleTask EXCEPT !.pc = "queued", !.text = pt[uidx[w[2]]]]
                ELSE task[w]]
  /\ UNCHANGED <<sem, stats, providerDim, cache, lru, firstVec, pipeVars, watch, chunker, gate>>

\* _embed_parallel lines 403-414 once every future has completed, then
\* embed_batch lines 377-382: set_batch of every new embedding.
BatchStore(c) ==
  /\ call[c].pc = "parallel"
  /\ \A j \in 1..Len(call[c].uidx) : task[<<c, j>>].pc = "done"
  /\ LET new == [j \in 1..Len(call[c].uidx) |-> FutureResult(task[<<c, j>>])]
         items == [j \in 1..Len(new) |-> <<HashContent(task[<<c, j>>].text), new[j]>>]
     IN /\ cache' = SetBatch(cache, items)
        /\ firstVec' = FirstStored(cache')
        /\ call' = [call EXCEPT ![c].pc = "merge", ![c].new = new]
  /\ UNCHANGED <<sem, stats, providerDim, lru, task, pipeVars, watch, chunker, gate>>

\* embed_batch lines 384-387
BatchReturn(c) ==
  /\ call[c].pc = "merge"
  /\ call' = [call EXCEPT ![c].pc = "ret",
                          ![c].res = MergeResults(call[c].res, call[c].uidx, call[c].new)]
  /\ UNCHANGED <<sem, stats, providerDim, cache, lru, task, firstVec, pipeVars, watch, chunker, gate>>

\* embed_sync / _get_embedding_lru_cached: the lru_cache lookup
EmbedSync(c, text, prefix) ==
  /\ call[c].pc = "idle"
  /\ LET pt == Prefixed(prefix, text)
     IN call' = [call EXCEPT ![c] =
           [kind |-> "sync", pc |-> IF lru[pt].kind # "none" THEN "ret" ELSE "get",
            texts |-> <<pt>>, cached |-> << >>, uidx |-> << >>, new |-> << >>,
            res |-> <<lru[pt]>>, raised |-> FALSE]]
  /\ UNCHANGED <<sem, stats, providerDim, cache, lru, task, firstVec, pipeVars, watch, chunker, gate>>

\* _get_embedding_cached lines 315-322: cache.get, a hit returns (and
\* fills the lru), a miss calls _get_embedding_direct in this thread.
SyncCacheGet(c) ==
  /\ call[c].pc = "get"
  /\ LET pt == call[c].texts[1]
         v == cache[HashContent(pt)]
     IN IF v.kind # "none"
          THEN /\ call' = [call EXCEPT ![c].pc = "ret", ![c].res = <<v>>]
               /\ lru' = [lru EXCEPT ![pt] = v]
               /\ UNCHANGED task
          ELSE /\ call' = [call EXCEPT ![c].pc = "direct"]
               /\ task' = [task EXCEPT ![<<c, 1>>] = [IdleTask EXCEPT !.pc = "loop", !.text = pt]]
               /\ UNCHANGED lru
  /\ UNCHANGED <<sem, stats, providerDim, cache, firstVec, pipeVars, watch, chunker, gate>>

\* _get_embedding_cached lines 322-324: cache.set of the result, or the
\* exception of _get_embedding_direct propagates out of embed_sync.
SyncDirectDone(c) ==
  /\ call[c].pc = "direct"
  /\ task[<<c, 1>>].pc = "done"
  /\ LET pt == call[c].texts[1]
         v == ProviderVector(pt)
     IN IF task[<<c, 1>>].out = "ok"
          THEN /\ cache' = SetBatch(cache, << <<HashContent(pt), v>> >>)
               /\ firstVec' = FirstStored(cache')
               /\ lru' = [lru EXCEPT ![pt] = v]
               /\ call' = [call EXCEPT ![c].pc = "ret", ![c].res = <<v>>]
          ELSE /\ call' = [call EXCEPT ![c].pc = "ret", ![c].raised = TRUE]
               /\ UNCHANGED <<cache, firstVec, lru>>
  /\ UNCHANGED <<sem, stats, providerDim, task, pipeVars, watch, chunker, gate>>

\* the caller takes the result; its next call may start
CallDone(c) ==
  /\ call[c].pc = "ret"
  /\ call' = [call EXCEPT ![c] = IdleCall]
  /\ task' = [w \in Tasks |-> IF w[1] = c THEN IdleTask ELSE task[w]]
  /\ UNCHANGED <<sem, stats, providerDim, cache, lru, firstVec, pipeVars, watch, chunker, gate>>

\* EmbeddingEngine.__init__ with another model: the engine is built again
\* (a new run with EMBEDDING_MODEL changed).  EmbeddingCache() opens the
\* same embeddings.db, the lru_cache of the new engine is empty.
NewEngine(dim) ==
  /\ dim # providerDim
  /\ \A c \in Callers : call[c].pc = "idle"
  /\ providerDim' = dim
  /\ lru' = [t \in AllTexts |-> NoVec]
  /\ UNCHANGED <<sem, stats, cache, call, task, firstVec, pipeVars, watch, chunker, gate>>

(***************************************************************************)
(* The file system, FileHashCache (cache.py) and the LanceDB table (db.py).*)
(***************************************************************************)
\* the highest mtime a file gets
MaxMtime == 2
Paths == {"A.cs", "B.cs", "N.txt"}
\* the files the environment rewrites and deletes
Written == {"A.cs"}
\* the paths of the events the observer delivers: those of Paths, a C#
\* script, a file with an upper-case extension and a build artifact
EventPaths == Paths \cup {"S.csx", "U.CS", "obj/G.cs"}
\* os.path.splitext(path)[1]: the extension as it is written
Suffix(p) ==
  CASE p = "N.txt" -> ".txt"
    [] p = "S.csx" -> ".csx"
    [] p = "U.CS" -> ".CS"
    [] OTHER -> ".cs"
\* str.lower() of an extension
Lower(ext) == IF ext = ".CS" THEN ".cs" ELSE ext
\* os.path.splitext(path)[1].lower()
Ext(p) == Lower(Suffix(p))
\* CSharpChunker.supported_extensions, the only registered chunker
SupportedExtensions == {".cs", ".csx"}
\* ChunkerFactory.get_chunker: is a chunker registered for the extension?
HasChunker(p) == Ext(p) \in SupportedExtensions

\* File contents: a source text and the empty file.
Contents == {"v1", "empty"}
\* st_size
Size(content) == IF content = "empty" THEN 0 ELSE 10
\* hashlib.sha256(content.encode()).hexdigest()[:32]
ContentHash(content) == [sha256 |-> content]
\* chunker.chunk_file: the ids of the chunks, in order; the id is made of
\* the path, the line range and the content.
NumChunks(content) == IF content = "empty" THEN 0 ELSE 2
ChunkFile(p, content) == [k \in 1..NumChunks(content) |-> <<p, k, content>>]

\* FileHashCache.update_file: the row written for a file
RecordOf(content, mtime) ==
  [hash |-> ContentHash(content), mtime |-> mtime, size |-> Size(content),
   chunks |-> NumChunks(content), present |-> TRUE]
\* the rows add_chunks_batch writes for a file: filepath and chunk id
RowsOf(p, content) == {[filepath |-> p, id |-> ChunkFile(p, content)[k]] : k \in 1..NumChunks(content)}
\* the files an earlier indexing run has left in the table and in the cache
Indexed == {"B.cs"}

NoFile == [exists |-> FALSE, content |-> "empty", mtime |-> 0]
NoRecord == [hash |-> ContentHash("-"), mtime |-> 0, size |-> 0, chunks |-> 0, present |-> FALSE]

\* FileHashCache.get_changed_files: one pass over filepaths against the
\* table read by get_indexed_files; os.stat raises OSError for a missing file.
RECURSIVE GetChangedFiles_MtimeOnly(_, _, _)
GetChangedFiles_MtimeOnly(filepaths, indexed, files) ==
  IF filepaths = << >> THEN << >>
  ELSE LET fp == Head(filepaths)
           rest == GetChangedFiles_MtimeOnly(Tail(filepaths), indexed, files)
       IN IF ~indexed[fp].present THEN <<fp>> \o rest
          ELSE IF ~files[fp].exists THEN <<fp>> \o rest
          ELSE IF indexed[fp].mtime # files[fp].mtime THEN <<fp>> \o rest
          ELSE rest

RECURSIVE GetChangedFiles(_, _, _)
GetChangedFiles(filepaths, indexed, files) ==
  IF filepaths = << >> THEN << >>
  ELSE LET fp == Head(filepaths)
           rest == GetChangedFiles(Tail(filepaths), indexed, files)
       IN IF ~indexed[fp].present THEN <<fp>> \o rest
          ELSE IF ~files[fp].exists THEN <<fp>> \o rest
          ELSE IF indexed[fp].mtime # files[fp].mtime \/ indexed[fp].size # Size(files[fp].content)
                 THEN <<fp>> \o rest
          ELSE rest

\* the environment writes a file: new content, the mtime stays (same
\* clock tick) or advances
WriteFile(p, content, tick) ==
  /\ fs[p].mtime + tick <= MaxMtime
  /\ fs[p].mtime + tick >= 1
  /\ fs' = [fs EXCEPT ![p] = [exists |-> TRUE, content |-> content, mtime |-> fs[p].mtime + tick]]
  /\ fs'[p] # fs[p]
  /\ UNCHANGED <<embedVars, chunker, watch, fileCache, store, run, batch>>

\* the environment deletes a file
DeleteFile(p) ==
  /\ fs[p].exists
  /\ fs' = [fs EXCEPT ![p] = NoFile]
  /\ UNCHANGED <<embedVars, chunker, watch, fileCache, store, run, batch>>

(***************************************************************************)
(* LibrarianWatcher (watcher.py): the event handler and the cold path.     *)
(***************************************************************************)
\* DEBOUNCE_SECONDS
DebounceSeconds == 5
\* the clock stops at MaxTime
MaxTime == 8
\* the most schedulings counted in one burst
MaxBurst == 3
\* no entry in pending_summaries
NoTime == 0 - 1
\* the files scheduled on the cold path
ColdPaths == {"A.cs", "B.cs"}

\* the rows of the table whose filepath is p
RowsFor(p) == {x \in store : x.filepath = p}

\* the summary column of a row nothing has summarised
NoSummary == "-"
\* the _run_architect tasks of one path: queued, the tasks submitted to
\* the executor and not started; pc, the position of the running task
\* (idle, generate, update); summary, its local variable; failed, whether
\* the Provider's generate call of the running task failed
IdleArch == [queued |-> 0, pc |-> "idle", summary |-> NoSummary, failed |-> FALSE]

\* handler: idle, hot (inside process_hot_path), raised (an exception left
\* on_modified); last: the path of the last event that passed the filters;
\* now: time.time(); pending: pending_summaries, path -> timestamp.
\* History per path: sched, the time of the last schedule_cold_path; burst,
\* the schedulings of the current burst; subs and subAt, the submissions
\* since the burst began and the time of the last one.
\* loop: run_cold_path_loop step by step: sleep (in time.sleep), read (now
\* is read), submit (to_process is filled, the lock is released).
\* arch: per path the _run_architect tasks of the executor; summary: the
\* summary column of the rows of a path; skipped: the paths of the events
\* on_modified has returned from without processing.
IdleWatch ==
  [handler |-> "idle", last |-> "-", now |-> 0,
   pending |-> [p \in Paths |-> NoTime],
   sched |-> [p \in Paths |-> NoTime],
   burst |-> [p \in Paths |-> 0],
   subs |-> [p \in Paths |-> 0],
   subAt |-> [p \in Paths |-> NoTime],
   loop |-> [pc |-> "sleep", now |-> 0, to_process |-> {}],
   arch |-> [p \in Paths |-> IdleArch],
   summary |-> [p \in Paths |-> NoSummary],
   skipped |-> {}]

\* line 254: self.pending_summaries[filepath] = time.time()
NewTimestamp_KeepFirst(old, now) == IF old = NoTime THEN now ELSE old
NewTimestamp(old, now) == now

\* schedule_cold_path lines 253-254, under self._lock
SchedulePending(w, p) ==
  LET sameBurst == w.pending[p] # NoTime /\ w.now - w.sched[p] < DebounceSeconds
  IN [w EXCEPT !.pending[p] = NewTimestamp(w.pending[p], w.now),
               !.sched[p] = w.now,
               !.burst[p] = IF sameBurst THEN @ + 1 ELSE 1,
               !.subs[p] = IF sameBurst THEN @ ELSE 0]

\* line 264: now - ts > DEBOUNCE_SECONDS
Due_Millis(now, ts) == now - ts > DebounceSeconds * 1000
Due(now, ts) == now - ts > DebounceSeconds
IsDue(w, p) == w.pending[p] # NoTime /\ w.now - w.pending[p] > DebounceSeconds

\* on_modified lines 212-214: any(pattern in filename for pattern in
\* ignore_patterns)
Ignored(p) == p = "obj/G.cs"
\* on_modified lines 212-217: the filters an event has to pass;
\* filename.endswith(".cs") looks at the name as it is written
Accepted(p) == ~Ignored(p) /\ Suffix(p) = ".cs"

\* Python's unpacking of a tuple into n names: ValueError unless the
\* lengths agree
Unpack(n, tuple) == IF Len(tuple) = n THEN "ok" ELSE "ValueError"
\* the tuple process_file returns
ResultTuple(res) == <<res.success, res.chunks, res.error>>

\* time passes
Tick ==
  /\ watch.now < MaxTime
  /\ watch' = [watch EXCEPT !.now = @ + 1]
  /\ UNCHANGED <<embedVars, chunker, pipeVars>>

\* schedule_cold_path(filepath)
ScheduleColdPath(p) ==
  /\ watch.burst[p] < MaxBurst
  /\ watch' = SchedulePending(watch, p)
  /\ UNCHANGED <<embedVars, chunker, pipeVars>>

\* run_cold_path_loop lines 259-269: one iteration; every due path is
\* taken out of pending_summaries and submitted to the executor
ColdPathLoop ==
  /\ \E p \in Paths : IsDue(watch, p)
  /\ watch' = [watch EXCEPT
        !.pending = [p \in Paths |-> IF IsDue(watch, p) THEN NoTime ELSE @[p]],
        !.subs = [p \in Paths |-> IF IsDue(watch, p) THEN @[p] + 1 ELSE @[p]],
        !.subAt = [p \in Paths |-> IF IsDue(watch, p) THEN watch.now ELSE @[p]]]
  /\ UNCHANGED <<embedVars, chunker, pipeVars>>

\* ---- run_cold_path_loop statement by statement.
\* line 259: now = time.time()
LoopReadNow ==
  /\ watch.loop.pc = "sleep"
  /\ watch' = [watch EXCEPT !.loop = [pc |-> "read", now |-> watch.now, to_process |-> {}]]
  /\ UNCHANGED <<embedVars, chunker, pipeVars>>

\* lines 262-266, under self._lock: the entries with now - ts >
\* DEBOUNCE_SECONDS go to to_process and are deleted
LoopTake ==
  /\ watch.loop.pc = "read"
  /\ LET due == {p \in Paths : /\ watch.pending[p] # NoTime
                                /\ Due(watch.loop.now, watch.pending[p])}
     IN watch' = [watch EXCEPT
           !.pending = [p \in Paths |-> IF p \in due THEN NoTime ELSE @[p]],
           !.loop = [@ EXCEPT !.pc = "submit", !.to_process = due]]
  /\ UNCHANGED <<embedVars, chunker, pipeVars>>

\* lines 268-271: executor.submit for every path of to_process, then
\* time.sleep(1.0)
LoopSubmit ==
  /\ watch.loop.pc = "submit"
  /\ watch' = [watch EXCEPT
        !.subs = [p \in Paths |-> IF p \in watch.loop.to_process THEN @[p] + 1 ELSE @[p]],
        !.subAt = [p \in Paths |-> IF p \in watch.loop.to_process THEN watch.now ELSE @[p]],
        !.arch = [p \in Paths |-> IF p \in watch.loop.to_process
                                    THEN [@[p] EXCEPT !.queued = @ + 1] ELSE @[p]],
        !.loop = [pc |-> "sleep", now |-> 0, to_process |-> {}]]
  /\ UNCHANGED <<embedVars, chunker, pipeVars>>

\* ---- _run_architect (lines 273-286), one task of the executor.
\* what the Provider's generate call does: it answers with a text, with an
\* empty text, or it fails
GenerateOutcomes == {"text", "empty", "fails"}
\* OllamaLLMProvider.generate: response.get('response', ''), and in the
\* except clause the string "Error generating response: ..."
Generate(outcome) ==
  CASE outcome = "text" -> "summary text"
    [] outcome = "empty" -> ""
    [] outcome = "fails" -> "Error generating response"
\* ArchitectAnalyzer.generate_summary: the response of the provider, and
\* in the except clause "Error generating summary: ..."
GenerateSummary(response) ==
  IF response = "raised" THEN "Error generating summary" ELSE response
\* the texts that report an error
ErrorTexts == {"Error generating response", "Error generating summary"}

\* lines 276-278: a worker of the executor starts the task and reads the
\* file; an exception ends the task in the except clause of line 285
ArchitectStart(p, ok) ==
  /\ watch.arch[p].queued > 0
  /\ watch.arch[p].pc = "idle"
  /\ watch' = [watch EXCEPT !.arch[p] =
        [@ EXCEPT !.queued = @ - 1,
                  !.pc = IF ok /\ fs[p].exists THEN "generate" ELSE "idle"]]
  /\ UNCHANGED <<embedVars, chunker, pipeVars>>

\* lines 280-281: summary = self.architect.generate_summary(content);
\* if summary: ...
ArchitectGenerate(p, outcome) ==
  /\ watch.arch[p].pc = "generate"
  /\ LET summary == GenerateSummary(Generate(outcome))
     IN watch' = [watch EXCEPT !.arch[p] =
           [@ EXCEPT !.summary = IF summary # "" THEN summary ELSE NoSummary,
                     !.failed = (summary # "" /\ outcome = "fails"),
                     !.pc = IF summary # "" THEN "update" ELSE "idle"]]
  /\ UNCHANGED <<embedVars, chunker, pipeVars>>

\* line 282 and db.update_summary: table.update(where filepath = p,
\* values summary); an exception of the table is swallowed
ArchitectUpdate(p, ok) ==
  /\ watch.arch[p].pc = "update"
  /\ watch' = [watch EXCEPT
        !.summary[p] = IF ok /\ RowsFor(p) # {} THEN watch.arch[p].summary ELSE @,
        !.arch[p] = [@ EXCEPT !.pc = "idle", !.summary = NoSummary, !.failed = FALSE]]
  /\ UNCHANGED <<embedVars, chunker, pipeVars>>

(***************************************************************************)
(* IndexingPipeline.process_file (watcher.py), one run per worker thread.  *)
(* pc of a run: idle, read, stat, embed, delete, add, update, ret.         *)
(***************************************************************************)
Runs == {"r1", "r2"}
\* r1 is a thread of the pool of process_files_batch, r2 is the watcher's
\* thread (the hot path)
PoolThreads == {"r1"}
\* the path lists process_files_parallel is called with
ScanInputs == {<<"B.cs", "N.txt", "A.cs">>, <<"A.cs">>}

NoResult == [kind |-> "none", success |-> 0, chunks |-> 0, error |-> ""]
\* return success, chunk_count, error
Return(success, chunks, error) ==
  [kind |-> "returned", success |-> success, chunks |-> chunks, error |-> error]
\* the except clause of lines 139-145: return 0, 0, str(e)
OnException_Propagate(msg) == [kind |-> "raised", success |-> 0, chunks |-> 0, error |-> msg]
OnException(msg) == Return(0, 0, msg)

\* alone: no other run has worked on the path since this run began;
\* zero: embed_batch gave a zero vector for a chunk whose requests failed;
\* before: inside upsert_chunks, the rows of the path when it was entered
IdleRun == [pc |-> "idle", path |-> "-", origin |-> "-", content |-> "-",
            mtime |-> 0, size |-> 0,
            same |-> FALSE, touched |-> FALSE, upserted |-> FALSE, result |-> NoResult,
            alone |-> TRUE, before |-> {}, zero |-> FALSE]
\* n: the number of paths submitted; sum: the chunk counts of the runs of
\* the batch that have returned success
IdleBatch == [pc |-> "idle", queue |-> << >>,
              files |-> 0, chunks |-> 0, failed |-> 0, aborted |-> FALSE,
              n |-> 0, sum |-> 0]

\* an exception inside the try block ends the run
Fail(r, msg) ==
  run' = [run EXCEPT ![r].pc = "ret", ![r].result = OnException(msg), ![r].before = {}]

\* upsert_chunks: where the run goes after add_chunks_batch
AfterAdd_Swallow(ok) == "update"
AfterAdd(ok) == IF ok THEN "update" ELSE "fail"

\* lines 53-57: the entry of process_file and get_chunker
Begin(r, p, origin, ok) ==
  LET new == [IdleRun EXCEPT !.path = p, !.origin = origin,
                             !.alone = \A x \in Runs \ {r} : run[x].path # p]
  IN run' = [x \in Runs |->
       IF x # r THEN (IF run[x].path = p THEN [run[x] EXCEPT !.alone = FALSE] ELSE run[x])
       ELSE IF ~ok THEN [new EXCEPT !.pc = "ret", !.result = OnException("get_chunker")]
       ELSE IF ~HasChunker(p)
         THEN [new EXCEPT !.pc = "ret", !.result = Return(0, 0, "Unsupported file type")]
       ELSE [new EXCEPT !.pc = "read"]]

\* process_files_parallel lines 241-249 and process_files_batch lines
\* 152-160: the delta filter, then every path is submitted to the pool.
ProcessFilesParallel(filepaths, use_delta) ==
  /\ batch.pc = "idle"
  /\ LET todo == IF use_delta THEN GetChangedFiles(filepaths, fileCache, fs) ELSE filepaths
     IN batch' = [IdleBatch EXCEPT !.pc = IF todo = << >> THEN "done" ELSE "running",
                                   !.queue = todo, !.n = Len(todo)]
  /\ UNCHANGED <<embedVars, chunker, watch, fs, fileCache, store, run>>

\* a pool thread takes the next submitted path and enters process_file
BatchProcessFile(r, ok) ==
  /\ run[r].pc = "idle"
  /\ batch.pc = "running"
  /\ batch.queue # << >>
  /\ Begin(r, Head(batch.queue), "batch", ok)
  /\ batch' = [batch EXCEPT !.queue = Tail(@)]
  /\ UNCHANGED <<embedVars, chunker, watch, fs, fileCache, store>>

\* on_modified / on_created lines 205-219: an event on a .cs file enters
\* process_hot_path, which calls process_file
HotPathProcessFile(r, p, ok) ==
  /\ run[r].pc = "idle"
  /\ watch.handler # "hot"
  /\ Accepted(p)
  /\ Begin(r, p, "hot", ok)
  /\ watch' = [watch EXCEPT !.handler = "hot", !.last = p]
  /\ UNCHANGED <<embedVars, chunker, fs, fileCache, store, batch>>

\* on_modified lines 205-217: an event on a file that does not pass the
\* filters; the handler returns
OnModifiedReturn(p) ==
  /\ watch.handler # "hot"
  /\ ~Accepted(p)
  /\ watch' = [watch EXCEPT !.skipped = @ \cup {p}]
  /\ UNCHANGED <<embedVars, chunker, pipeVars>>

\* lines 59-60: open and read
ReadFile(r, ok) ==
  /\ run[r].pc = "read"
  /\ IF ok /\ fs[run[r].path].exists
       THEN run' = [run EXCEPT ![r].pc = "stat", ![r].content = fs[run[r].path].content]
       ELSE Fail(r, "read")
  /\ UNCHANGED <<embedVars, chunker, watch, fs, fileCache, store, batch>>

\* lines 62-67: os.stat, the content hash and chunk_file; no chunks is a
\* success with nothing to do
StatAndChunk(r, ok) ==
  /\ run[r].pc = "stat"
  /\ LET f == fs[run[r].path]
         rec == fileCache[run[r].path]
     IN IF ~f.exists THEN Fail(r, "stat")
        ELSE IF ~ok THEN Fail(r, "chunk")
        ELSE run' = [run EXCEPT
                         ![r].pc = IF ChunkFile(run[r].path, run[r].content) = << >>
                                     THEN "ret" ELSE "embed",
                         ![r].result = IF ChunkFile(run[r].path, run[r].content) = << >>
                                         THEN Return(1, 0, "") ELSE @,
                         ![r].mtime = f.mtime,
                         ![r].size = Size(f.content),
                         ![r].same = /\ rec.present
                                     /\ f.content = run[r].content
                                     /\ rec.hash = ContentHash(run[r].content)
                                     /\ rec.mtime = f.mtime
                                     /\ rec.size = Size(f.content)]
  /\ UNCHANGED <<embedVars, chunker, watch, fs, fileCache, store, batch>>

\* lines 111-112: embed_batch returns one vector per chunk (from the
\* Provider or, when zero, the zero fallback for a chunk whose requests
\* failed) or raises (a cache I/O error)
EmbedStep(r, ok, zero) ==
  /\ run[r].pc = "embed"
  /\ IF ok THEN run' = [run EXCEPT ![r].pc = "delete", ![r].before = RowsFor(run[r].path),
                                   ![r].zero = zero]
           ELSE /\ ~zero
                /\ Fail(r, "embed")
  /\ UNCHANGED <<embedVars, chunker, watch, fs, fileCache, store, batch>>

\* upsert_chunks lines 96-100: table.delete; its exception is swallowed
UpsertDelete(r, ok) ==
  /\ run[r].pc = "delete"
  /\ store' = IF ok THEN {x \in store : x.filepath # run[r].path} ELSE store
  /\ run' = [run EXCEPT ![r].pc = "add", ![r].touched = TRUE]
  /\ UNCHANGED <<embedVars, chunker, watch, fs, fileCache, batch>>

\* upsert_chunks line 102: add_chunks_batch; its exception propagates
UpsertAdd(r, ok) ==
  /\ run[r].pc = "add"
  /\ LET ids == ChunkFile(run[r].path, run[r].content)
         rows == {[filepath |-> run[r].path, id |-> ids[k]] : k \in 1..Len(ids)}
     IN store' = IF ok THEN store \cup rows ELSE store
  /\ IF AfterAdd(ok) = "update"
       THEN run' = [run EXCEPT ![r].pc = "update", ![r].upserted = ok, ![r].before = {}]
       ELSE Fail(r, "upsert")
  /\ UNCHANGED <<embedVars, chunker, watch, fs, fileCache, batch>>

\* lines 133-137: file_cache.update_file, then return 1, len(chunks), None
UpdateFileCache(r, ok) ==
  /\ run[r].pc = "update"
  /\ IF ok
       THEN /\ fileCache' = [fileCache EXCEPT ![run[r].path] =
                 [hash |-> ContentHash(run[r].content), mtime |-> run[r].mtime,
                  size |-> run[r].size, chunks |-> NumChunks(run[r].content), present |-> TRUE]]
            /\ run' = [run EXCEPT ![r].pc = "ret",
                 ![r].result = Return(1, NumChunks(run[r].content), "")]
            /\ batch' = IF run[r].origin = "batch"
                          THEN [batch EXCEPT !.sum = @ + NumChunks(run[r].content)]
                          ELSE batch
       ELSE /\ Fail(r, "update_file")
            /\ UNCHANGED <<fileCache, batch>>
  /\ UNCHANGED <<embedVars, chunker, watch, fs, store>>

\* lines 163-166: total_files += success; total_chunks += chunks;
\* if not success: total_failed += 1
Aggregate_SkipFailed(b, res) ==
  [b EXCEPT !.files = @ + res.success, !.chunks = @ + res.chunks]
Aggregate(b, res) ==
  [b EXCEPT !.files = @ + res.success,
            !.chunks = @ + res.chunks,
            !.failed = @ + (IF res.success = 0 THEN 1 ELSE 0)]

\* process_files_batch lines 161-166: the caller takes one completed
\* future; future.result() raises again what process_file raised
FilesBatchCollect(r) ==
  /\ run[r].pc = "ret"
  /\ run[r].origin = "batch"
  /\ batch' = IF run[r].result.kind = "raised"
                THEN [batch EXCEPT !.aborted = TRUE, !.pc = "done"]
                ELSE Aggregate(batch, run[r].result)
  /\ run' = [run EXCEPT ![r] = IdleRun]
  /\ UNCHANGED <<embedVars, chunker, watch, fs, fileCache, store>>

\* process_files_batch line 168: every future is collected
FilesBatchReturn ==
  /\ batch.pc = "running"
  /\ batch.queue = << >>
  /\ \A r \in Runs : run[r].origin # "batch"
  /\ batch' = [batch EXCEPT !.pc = "done"]
  /\ UNCHANGED <<embedVars, chunker, watch, fs, fileCache, store, run>>

\* the caller of process_files_parallel takes the totals
FilesBatchDone ==
  /\ batch.pc = "done"
  /\ \A r \in Runs : run[r].origin # "batch"
  /\ batch' = IdleBatch
  /\ UNCHANGED <<embedVars, chunker, watch, fs, fileCache, store, run>>

\* process_hot_path line 231 after process_file has returned:
\* success, chunks = self.pipeline.process_file(filepath); when the
\* unpacking succeeds on_modified goes on to schedule_cold_path (line 220)
\* and returns, otherwise the exception leaves the handler.
HotPathReturn(r) ==
  /\ run[r].pc = "ret"
  /\ run[r].origin = "hot"
  /\ run' = [run EXCEPT ![r] = IdleRun]
  /\ watch' = IF run[r].result.kind = "returned" /\ Unpack(2, ResultTuple(run[r].result)) = "ok"
                THEN [SchedulePending(watch, run[r].path) EXCEPT !.handler = "idle"]
                ELSE [watch EXCEPT !.handler = "raised"]
  /\ UNCHANGED <<embedVars, chunker, fs, fileCache, store, batch>>

(***************************************************************************)
(* CSharpChunker.chunk_file (chunking/csharp.py, chunking/base.py).  A     *)
(* file is a sequence of lines; a line is known by what the patterns and   *)
(* the brace counting see of it and by its length.  Line numbers are the   *)
(* 0-based indices of the code.                                            *)
(***************************************************************************)
\* CHUNK_SIZE_LINES
MaxChunkLines == 15
\* CHUNK_OVERLAP_LINES
OverlapLines == 3
\* MAX_EMBEDDING_TEXT_LENGTH
MaxEmbeddingTextLength == 1500
\* MIN_CHUNK_SIZE_CHARS
MinChunkChars == 50
\* the longest structureless file
MaxLines == 28
\* the hash seeds of the Python processes (str hashes are salted per
\* process)
Seeds == {1, 2}

\* "public class C {", "public void M() {", "public int X { get; set; }",
\* "}", a short statement, a long statement, a line that is one long token
LineKinds == {"C", "M", "P", "}", "s", "S", "T"}
LineOf(kind) ==
  [kind |-> kind,
   cls |-> kind = "C",
   meth |-> kind = "M",
   prop |-> kind = "P",
   open |-> IF kind \in {"C", "M", "P"} THEN 1 ELSE 0,
   close |-> IF kind \in {"P", "}"} THEN 1 ELSE 0,
   len |-> CASE kind = "C" -> 16 [] kind = "M" -> 17 [] kind = "P" -> 26
             [] kind = "}" -> 1 [] kind = "s" -> 10 [] kind = "S" -> 98
             [] kind = "e" -> 0 [] kind = "L" -> 2102
             [] OTHER -> 1600]

\* n lines of one kind
Repeat(n, kind) == [i \in 1..n |-> LineOf(kind)]
\* a file without class, method or property
Structureless(n, kind) == Repeat(n, kind)
\* a class with fields, a property when wanted, and one method of a body
\* of n lines
ClassFile(fields, withProp, n, kind) ==
  <<LineOf("C")>> \o Repeat(fields, "s")
    \o (IF withProp THEN <<LineOf("P")>> ELSE << >>)
    \o <<LineOf("M")>> \o Repeat(n, kind) \o <<LineOf("}"), LineOf("}")>>

\* the files chunk_file is called with
Files ==
  {Structureless(n, "S") : n \in 1..MaxLines} \cup {Structureless(n, "s") : n \in 1..6}
    \cup {ClassFile(f, wp, n, "S") : f \in 0..1, wp \in BOOLEAN, n \in {0, 2, 13, 16}}
    \cup {ClassFile(0, FALSE, n, "s") : n \in {1, 20}}
    \cup {ClassFile(0, FALSE, 1, "T")}

\* len(filepath) of "src/Foo.cs" and len(filepath.split('/')[-1])
FilepathLen == 10
FilenameLen == 6
\* len(chunk_type)
TypeLen(chunk_type) ==
  CASE chunk_type = "block" -> 5 [] chunk_type = "method" -> 6
    [] chunk_type = "property" -> 8 [] OTHER -> 11

\* the number of decimal digits of n
Digits(n) == IF n < 10 THEN 1 ELSE IF n < 100 THEN 2 ELSE 3

\* lines[a:b] of Python, a and b 0-based
Slice(lines, a, b) == SubSeq(lines, a + 1, Min(b, Len(lines)))

\* len("\n".join(lines))
RECURSIVE SumLen(_)
SumLen(lines) == IF lines = << >> THEN 0 ELSE Head(lines).len + 1 + SumLen(Tail(lines))
JoinLen(lines) == IF lines = << >> THEN 0 ELSE SumLen(lines) - 1

\* hash(content): salted with the seed of the process
PyHash(content, seed) == [of |-> content, salt |-> seed]

\* _generate_chunk_id: md5 of "filepath:start:end:hash(content)"
GenerateChunkId(start_line, end_line, content, seed) ==
  [md5 |-> <<"src/Foo.cs", start_line, end_line, PyHash(content, seed)>>]

\* content[:max_text_length] as lines: the first budget characters
RECURSIVE CutLines(_, _)
CutLines(lines, budget) ==
  IF lines = << >> THEN << >>
  ELSE LET h == Head(lines)
       IN IF h.len >= budget THEN <<[h EXCEPT !.len = budget]>>
          ELSE IF Tail(lines) = << >> THEN <<h>>
          ELSE IF budget - h.len - 1 = 0 THEN <<h, [LineOf("s") EXCEPT !.len = 0]>>
          ELSE <<h>> \o CutLines(Tail(lines), budget - h.len - 1)

\* _truncate_content: content[:max] + "\n... [truncated]" when too long
TruncateContent(lines) ==
  IF JoinLen(lines) > MaxEmbeddingTextLength
    THEN CutLines(lines, MaxEmbeddingTextLength) \o <<[LineOf("s") EXCEPT !.len = 15]>>
    ELSE lines

\* _create_embedding_text: "Context: h\nFile: p\nType: t\n\ncontent"
EmbeddingTextLen(headerLen, chunk_type, contentLen) ==
  9 + headerLen + 1 + 6 + FilepathLen + 1 + 6 + TypeLen(chunk_type) + 2 + contentLen

\* ChunkData as _create_chunk and _split_large_content build it
ChunkData(content, start_line, end_line, headerLen, chunk_type, seed) ==
  LET c == TruncateContent(content)
  IN [id |-> GenerateChunkId(start_line, end_line, c, seed),
      content |-> c,
      headerLen |-> headerLen,
      chunk_type |-> chunk_type,
      start_line |-> start_line,
      end_line |-> end_line,
      textLen |-> EmbeddingTextLen(headerLen, chunk_type, JoinLen(c))]

\* _split_large_content: the loop from index i with part number part
RECURSIVE SplitLoop(_, _, _, _, _, _, _)
SplitLoop(lines, start_line, headerLen, chunk_type, seed, i, part) ==
  IF i >= Len(lines) THEN << >>
  ELSE LET end_idx == Min(i + MaxChunkLines, Len(lines))
           chunk_lines == Slice(lines, i, end_idx)
           hl == IF Len(lines) > MaxChunkLines THEN headerLen + 8 + Digits(part) ELSE headerLen
           rest == SplitLoop(lines, start_line, headerLen, chunk_type, seed,
                             i + MaxChunkLines - OverlapLines, part + 1)
       IN IF JoinLen(chunk_lines) >= MinChunkChars
            THEN <<ChunkData(chunk_lines, start_line + i, start_line + end_idx - 1,
                             hl, chunk_type, seed)>> \o rest
            ELSE rest
SplitLargeContent(lines, start_line, headerLen, chunk_type, seed) ==
  SplitLoop(lines, start_line, headerLen, chunk_type, seed, 0, 1)

\* _parse_structure: the state after line i (0-based) and the lines before
\* it; cur: current_class is set
RECURSIVE ParseLoop(_, _, _)
ParseLoop(lines, i, st) ==
  IF i >= Len(lines) THEN st
  ELSE LET ln == lines[i + 1]
           cur1 == st.cur \/ ln.cls
           curDepth1 == IF ln.cls THEN st.depth ELSE st.curDepth
           classes1 == IF ln.cls THEN Append(st.classes, [start |-> i, depth |-> st.depth])
                                 ELSE st.classes
           methods1 == IF cur1 /\ ln.meth THEN Append(st.methods, [start |-> i, type |-> "method"])
                                          ELSE st.methods
           props1 == IF ln.prop /\ cur1 THEN Append(st.properties, [start |-> i, type |-> "property"])
                                        ELSE st.properties
           depth1 == st.depth + ln.open - ln.close
           closes == classes1 # << >> /\ depth1 < classes1[Len(classes1)].depth
           cur2 == IF closes /\ curDepth1 >= depth1 THEN FALSE ELSE cur1
       IN ParseLoop(lines, i + 1,
                    [depth |-> depth1, cur |-> cur2, curDepth |-> curDepth1,
                     classes |-> classes1, methods |-> methods1, properties |-> props1])
ParseStructure(lines) ==
  ParseLoop(lines, 0, [depth |-> 0, cur |-> FALSE, curDepth |-> 0,
                       classes |-> << >>, methods |-> << >>, properties |-> << >>])

\* all_members.sort(key=start): methods and properties merged by start
RECURSIVE MergeByStart(_, _)
MergeByStart(a, b) ==
  IF a = << >> THEN b
  ELSE IF b = << >> THEN a
  ELSE IF Head(a).start <= Head(b).start THEN <<Head(a)>> \o MergeByStart(Tail(a), b)
  ELSE <<Head(b)>> \o MergeByStart(a, Tail(b))

\* _find_member_ends: the scan from line j with the brace count so far;
\* the result is the line where the body closes, or NoEnd
NoEnd == 0 - 1
RECURSIVE ScanEnd(_, _, _, _)
ScanEnd(lines, j, brace_count, in_body) ==
  IF j >= Len(lines) THEN NoEnd
  ELSE LET ln == lines[j + 1]
           count1 == brace_count + ln.open - ln.close
           body1 == in_body \/ ln.open > 0
       IN IF body1 /\ count1 = 0 THEN j ELSE ScanEnd(lines, j + 1, count1, body1)
FindMemberEnds(lines, members) ==
  [k \in 1..Len(members) |->
     LET e == ScanEnd(lines, members[k].start, 0, FALSE)
     IN [start |-> members[k].start,
         type |-> members[k].type,
         end |-> IF e # NoEnd THEN e
                 ELSE IF k + 1 <= Len(members) THEN members[k + 1].start - 1
                 ELSE Len(lines) - 1]]

\* len(" > ".join(context_parts)) with the class "C" and the member "M" or "X"
MemberHeaderLen(member_type) == 7 + 3 + TypeLen(member_type) + 2

\* _chunk_by_members: the chunks of the members from the k-th on
RECURSIVE ChunkMembers(_, _, _, _)
ChunkMembers(lines, members, k, seed) ==
  IF k > Len(members) THEN << >>
  ELSE LET m == members[k]
           end == IF m.end = 0 THEN Len(lines) - 1 ELSE m.end
           member_lines == Slice(lines, m.start, end + 1)
           rest == ChunkMembers(lines, members, k + 1, seed)
       IN IF Len(member_lines) > MaxChunkLines
            THEN SplitLargeContent(member_lines, m.start, MemberHeaderLen(m.type), m.type, seed)
                   \o rest
          ELSE IF JoinLen(member_lines) >= MinChunkChars
            THEN <<ChunkData(member_lines, m.start, end, MemberHeaderLen(m.type), m.type, seed)>>
                   \o rest
          ELSE rest

\* _chunk_by_lines: the context header is the class or the file name
ChunkByLines(lines, structure, seed) ==
  SplitLargeContent(lines, 0, IF structure.classes # << >> THEN 7 ELSE FilenameLen, "block", seed)

\* _create_header_chunk: the first line with a brace among the ten lines
\* from the class line on
RECURSIVE HeaderEnd(_, _, _, _)
HeaderEnd(lines, i, last, default) ==
  IF i >= last THEN default
  ELSE IF lines[i + 1].open > 0 THEN i + 1
  ELSE HeaderEnd(lines, i + 1, last, default)
CreateHeaderChunk(lines, structure, seed) ==
  IF structure.classes = << >> THEN << >>
  ELSE LET first == structure.classes[1].start
           header_end == HeaderEnd(lines, first, Min(first + 10, Len(lines)), first)
           content == Slice(lines, 0, header_end)
       IN IF JoinLen(content) < MinChunkChars THEN << >>
          ELSE <<ChunkData(content, 0, header_end - 1, 6 + FilenameLen + 3 + 7 + 14,
                           "file_header", seed)>>

\* chunk_file
CSharpChunkFile(lines, seed) ==
  IF lines = << >> THEN << >>
  ELSE LET structure == ParseStructure(lines)
           members == FindMemberEnds(lines, MergeByStart(structure.methods, structure.properties))
           chunks == IF members # << >> THEN ChunkMembers(lines, members, 1, seed)
                                        ELSE ChunkByLines(lines, structure, seed)
       IN CreateHeaderChunk(lines, structure, seed) \o chunks

(***************************************************************************)
(* split_text_into_chunks (embeddings.py) and the re-split of oversized    *)
(* chunks in process_file (watcher.py lines 69-108).                       *)
(***************************************************************************)
\* line.split(): the lengths of the words of a line.  The lines longer
\* than chunk_size in Files are one token; in Texts there are also the
\* empty line "e", the line "W" of 1600 blanks and the line "L" of three
\* words of 700 characters.
Words(line) ==
  CASE line.kind \in {"e", "W"} -> << >>
    [] line.kind = "L" -> <<700, 700, 700>>
    [] OTHER -> <<line.len>>

\* lines 67-79: the loop over the words of a long line; wn words of total
\* length wlen are in word_chunk
RECURSIVE WordParts(_, _, _, _)
WordParts(words, chunk_size, wn, wlen) ==
  IF words = << >> THEN (IF wn > 0 THEN <<wlen - 1>> ELSE << >>)
  ELSE LET word_len == Head(words) + 1
       IN IF wlen + word_len > chunk_size
            THEN (IF wn > 0 THEN <<wlen - 1>> ELSE << >>)
                   \o WordParts(Tail(words), chunk_size, 1, word_len)
            ELSE WordParts(Tail(words), chunk_size, wn + 1, wlen + word_len)

\* lines 51-95: the loop over the lines; n lines of total length cur_len
\* (newlines counted) are in current_chunk.  The result is the lengths of
\* the parts.
RECURSIVE SplitLines(_, _, _, _)
SplitLines(lines, chunk_size, n, cur_len) ==
  LET flush == IF n > 0 THEN <<cur_len - 1>> ELSE << >>
  IN IF lines = << >> THEN flush
     ELSE LET line_length == Head(lines).len + 1
          IN IF line_length > chunk_size
               THEN flush \o WordParts(Words(Head(lines)), chunk_size, 0, 0)
                          \o SplitLines(Tail(lines), chunk_size, 0, 0)
             ELSE IF cur_len + line_length > chunk_size
               THEN flush \o SplitLines(Tail(lines), chunk_size, 1, line_length)
             ELSE SplitLines(Tail(lines), chunk_size, n + 1, cur_len + line_length)

\* split_text_into_chunks(text, max_length)
SplitTextIntoChunks(lines, max_length) ==
  IF JoinLen(lines) <= max_length THEN <<JoinLen(lines)>>
  ELSE SplitLines(lines, max_length - 50, 0, 0)

\* watcher.py lines 84-102: the chunk made for part i of n of raw_chunk;
\* its embedding text is "filepath\nheader [part i/n]\ncontent_part"
PartChunk(raw_chunk, i, n, partLen) ==
  [id |-> <<raw_chunk.id, "_part", i>>,
   start_line |-> raw_chunk.start_line,
   end_line |-> raw_chunk.end_line,
   textLen |-> FilepathLen + 1 + raw_chunk.headerLen + 9 + Digits(i) + Digits(n) + 1 + partLen]

\* watcher.py lines 71-108: processed_chunks
RECURSIVE ProcessedChunks(_)
ProcessedChunks(raw_chunks) ==
  IF raw_chunks = << >> THEN << >>
  ELSE LET raw_chunk == Head(raw_chunks)
           parts == SplitTextIntoChunks(raw_chunk.content, MaxEmbeddingTextLength)
       IN (IF raw_chunk.textLen > MaxEmbeddingTextLength
             THEN [i \in 1..Len(parts) |-> PartChunk(raw_chunk, i, Len(parts), parts[i])]
             ELSE <<[id |-> raw_chunk.id, start_line |-> raw_chunk.start_line,
                     end_line |-> raw_chunk.end_line, textLen |-> raw_chunk.textLen]>>)
          \o ProcessedChunks(Tail(raw_chunks))

\* ---- split_text_into_chunks and _get_embedding_direct on their own.
\* the kinds of line of the texts: a short line, one long token, an empty
\* line, a line of blanks, a long line of words
TextKinds == {"s", "T", "e", "W", "L"}
\* the most lines of a text
MaxTextLines == 3
\* the texts: text.split('\n') has at least one line
Texts == UNION {[1..n -> {LineOf(k) : k \in TextKinds}] : n \in 1..MaxTextLines}
\* the values of max_length: the default, one that leaves a chunk_size of
\* 50 and one below the 50 the code subtracts
MaxLengths == {MaxEmbeddingTextLength, 100, 40}

\* _get_embedding_direct lines 252-262: the length of safe_text, or the
\* IndexError of chunks[0] on an empty list
SafeText(lines) ==
  IF JoinLen(lines) > MaxEmbeddingTextLength
    THEN LET chunks == SplitTextIntoChunks(lines, MaxEmbeddingTextLength)
         IN IF chunks = << >> THEN [kind |-> "IndexError", len |-> 0]
            ELSE [kind |-> "sent", len |-> chunks[1]]
    ELSE [kind |-> "sent", len |-> JoinLen(lines)]

\* no call yet
NoSplit == [called |-> FALSE, text |-> << >>, max_length |-> 0, chunks |-> << >>]
NoDirect == [called |-> FALSE, text |-> << >>, safe_text |-> [kind |-> "-", len |-> 0]]

\* ---- _split_large_content statement by statement, for any configured
\* pair (max_chunk_lines, overlap_lines).
\* the configured pairs: the default, a short window, an overlap equal to
\* the window and an overlap above it
ChunkConfigs == {<<MaxChunkLines, OverlapLines>>, <<4, 1>>, <<3, 3>>, <<2, 3>>}
\* the most lines of a list given to the loop
MaxLoopLines == 8
\* the iterations after which the run is no longer followed
MaxIterations == 10
\* lines[a:b] of Python, where a negative index counts from the end
PySlice(lines, a, b) ==
  LET n == Len(lines)
      lo == IF a < 0 THEN (IF a + n < 0 THEN 0 ELSE a + n) ELSE Min(a, n)
      hi == IF b < 0 THEN (IF b + n < 0 THEN 0 ELSE b + n) ELSE Min(b, n)
  IN IF lo >= hi THEN << >> ELSE SubSeq(lines, lo + 1, hi)
\* pc: idle, while (at the test of the loop), done (returned); i and part
\* as in the code; starts: the start_line of the chunks appended
NoSplitLoop == [pc |-> "idle", lines |-> << >>, max_chunk_lines |-> 0, overlap_lines |-> 0,
                i |-> 0, part |-> 1, starts |-> << >>]

\* no earlier call of chunk_file on the file
NoPrev == [known |-> FALSE, chunks |-> << >>]
\* pc: idle, chunked (chunk_file has returned), handed (the texts are
\* handed to embed_batch); prev: what the call before returned for the
\* same file; split, direct: the last call, when it was one of
\* split_text_into_chunks with what it returned, or one of
\* _get_embedding_direct with the text it goes on with; large: the
\* _split_large_content call in progress
IdleChunker ==
  [pc |-> "idle", seed |-> 1, file |-> << >>, chunks |-> << >>, handed |-> << >>,
   prev |-> NoPrev, split |-> NoSplit, direct |-> NoDirect, large |-> NoSplitLoop]

\* _split_large_content lines 112-114: chunks = [], i = 0, part = 1, in a
\* chunker configured with (max_chunk_lines, overlap_lines)
CallSplitLargeContent(lines, config) ==
  /\ chunker.large.pc \in {"idle", "done"}
  /\ chunker' = [chunker EXCEPT !.large =
        [NoSplitLoop EXCEPT !.pc = "while", !.lines = lines,
                            !.max_chunk_lines = config[1], !.overlap_lines = config[2]]]
  /\ UNCHANGED <<embedVars, pipeVars, watch>>

\* lines 116-141: the test of the while loop and one iteration, or the
\* return when i has reached len(lines)
SplitIteration ==
  /\ chunker.large.pc = "while"
  /\ chunker.large.part <= MaxIterations
  /\ LET l == chunker.large
         end_idx == Min(l.i + l.max_chunk_lines, Len(l.lines))
         chunk_lines == PySlice(l.lines, l.i, end_idx)
     IN chunker' = [chunker EXCEPT !.large =
          IF l.i < Len(l.lines)
            THEN [l EXCEPT !.starts = IF JoinLen(chunk_lines) >= MinChunkChars
                                        THEN Append(@, l.i) ELSE @,
                           !.i = l.i + l.max_chunk_lines - l.overlap_lines,
                           !.part = @ + 1]
            ELSE [l EXCEPT !.pc = "done"]]
  /\ UNCHANGED <<embedVars, pipeVars, watch>>

\* split_text_into_chunks(text, max_length)
CallSplitText(text, max_length) ==
  /\ chunker' = [chunker EXCEPT !.split =
        [called |-> TRUE, text |-> text, max_length |-> max_length,
         chunks |-> SplitTextIntoChunks(text, max_length)],
        !.direct = NoDirect]
  /\ UNCHANGED <<embedVars, pipeVars, watch>>

\* _get_embedding_direct(text) up to the retry loop
CallDirect(text) ==
  /\ chunker' = [chunker EXCEPT !.direct =
        [called |-> TRUE, text |-> text, safe_text |-> SafeText(text)],
        !.split = NoSplit]
  /\ UNCHANGED <<embedVars, pipeVars, watch>>

\* the indexer is started again: a new Python process and hash seed
StartProcess(seed) ==
  /\ chunker.pc # "chunked"
  /\ seed # chunker.seed
  /\ chunker' = [chunker EXCEPT !.pc = "idle", !.seed = seed]
  /\ UNCHANGED <<embedVars, pipeVars, watch>>

\* process_file lines 65-67: raw_chunks = chunker.chunk_file(filepath, content)
CallChunkFile(file) ==
  /\ chunker.pc # "chunked"
  /\ chunker' = [chunker EXCEPT
        !.pc = "chunked",
        !.file = file,
        !.chunks = CSharpChunkFile(file, chunker.seed),
        !.handed = << >>,
        !.prev = IF file = chunker.file /\ file # << >>
                 THEN [known |-> TRUE, chunks |-> chunker.chunks]
                 ELSE NoPrev]
  /\ UNCHANGED <<embedVars, pipeVars, watch>>

\* process_file lines 69-112: the re-split, then the embedding texts go to
\* embed_batch
HandToEmbedBatch ==
  /\ chunker.pc = "chunked"
  /\ chunker' = [chunker EXCEPT !.pc = "handed", !.handed = ProcessedChunks(chunker.chunks)]
  /\ UNCHANGED <<embedVars, pipeVars, watch>>

InitChunker == chunker = IdleChunker

\* chunk_file and the re-split over the files of Files, in processes with
\* different hash seeds.
NextChunk ==
  \/ \E seed \in Seeds : StartProcess(seed)
  \/ \E file \in Files : CallChunkFile(file)
  \/ HandToEmbedBatch

\* split_text_into_chunks and _get_embedding_direct called with any text
\* of Texts.
NextSplit ==
  \/ \E text \in Texts : \E max_length \in MaxLengths : CallSplitText(text, max_length)
  \/ \E text \in Texts : CallDirect(text)

InitEngine ==
  /\ sem = MaxConcurrent
  /\ gate = IdleGate
  /\ stats = [queued |-> 0, active |-> 0]
  /\ providerDim \in ProviderDims
  /\ cache = [h \in Hashes |-> NoVec]
  /\ lru = [t \in AllTexts |-> NoVec]
  /\ call = [c \in Callers |-> IdleCall]
  /\ task = [w \in Tasks |-> IdleTask]
  /\ firstVec = [h \in Hashes |-> NoVec]

\* the pipeline at start: the files exist, the files of Indexed were
\* indexed by an earlier run (their record and their rows are there)
InitPipeline ==
  /\ fs \in [Paths -> {[exists |-> TRUE, content |-> "v1", mtime |-> 1]}]
  /\ fileCache = [p \in Paths |-> IF p \in Indexed THEN RecordOf("v1", 1) ELSE NoRecord]
  /\ store = UNION {RowsOf(p, "v1") : p \in Indexed}
  /\ run = [r \in Runs |-> IdleRun]
  /\ batch = IdleBatch

InitWatch == watch = IdleWatch /\ InitChunker

InitEmbed == InitEngine /\ InitPipeline /\ InitWatch
\* the pipeline with the default model (nomic-embed-text)
InitPipe == InitEngine /\ InitPipeline /\ InitWatch /\ providerDim = ZeroVectorDim

NextEmbed ==
  \/ \E c \in Callers : \E texts \in InputsOf(c) : \E p \in Prefixes : EmbedBatch(c, texts, p)
  \/ \E c \in Callers \ {"c1"} : \E t \in {<<"a">>} : \E p \in Prefixes : EmbedSync(c, t, p)
  \/ \E c \in Callers : SyncCacheGet(c)
  \/ \E c \in Callers : SyncDirectDone(c)
  \/ \E c \in Callers : \E j \in 1..MaxBatch : TaskStart(c, j)
  \/ \E w \in Tasks : Acquire(w)
  \/ \E w \in Tasks : \E r \in Responses : Respond(w, r)
  \/ \E c \in Callers : BatchStore(c)
  \/ \E c \in Callers : BatchReturn(c)
  \/ \E c \in Callers : CallDone(c)

SpecEmbed == InitEmbed /\ [][NextEmbed]_vars

\* One batch caller and one embed_sync caller over engines that are built
\* again with another model while embeddings.db stays.
NextModels ==
  \/ \E dim \in ProviderDims : NewEngine(dim)
  \/ \E texts \in InputsOf("c1") : \E p \in Prefixes : EmbedBatch("c1", texts, p)
  \/ \E t \in {<<"a">>} : \E p \in Prefixes : EmbedSync("c2", t, p)
  \/ \E c \in Callers : SyncCacheGet(c)
  \/ \E c \in Callers : SyncDirectDone(c)
  \/ \E c \in Callers : \E j \in 1..MaxBatch : TaskStart(c, j)
  \/ \E w \in Tasks : Acquire(w)
  \/ \E w \in Tasks : \E r \in Responses : Respond(w, r)
  \/ \E c \in Callers : BatchStore(c)
  \/ \E c \in Callers : BatchReturn(c)
  \/ \E c \in Callers : CallDone(c)

SpecModels == InitEmbed /\ [][NextModels]_vars

\* The queue with three threads that call _get_embedding_direct again and
\* again, every step of acquire and release on its own.
NextQueue ==
  \/ \E w \in QueueThreads : DirectCall(w)
  \/ \E w \in QueueThreads : AcquireEnqueue(w)
  \/ \E w \in QueueThreads : AcquireSemaphore(w)
  \/ \E w \in QueueThreads : AcquireStats(w)
  \/ \E w \in QueueThreads : AcquireGate(w)
  \/ \E w \in QueueThreads : \E r \in Responses : ProviderRespond(w, r)
  \/ \E w \in QueueThreads : BackoffDone(w)
  \/ \E w \in QueueThreads : ReleaseStats(w)
  \/ \E w \in QueueThreads : ReleaseSemaphore(w)
  \/ \E w \in QueueThreads : DirectReturn(w)

SpecQueue == InitEmbed /\ [][NextQueue]_vars

\* The queue with three threads against the clock: the interval gate of
\* acquire in its two steps.
NextGate ==
  \/ ClockTick
  \/ \E w \in QueueThreads : DirectCall(w)
  \/ \E w \in QueueThreads : AcquireEnqueue(w)
  \/ \E w \in QueueThreads : AcquireSemaphore(w)
  \/ \E w \in QueueThreads : AcquireStats(w)
  \/ \E w \in QueueThreads : GateEnter(w)
  \/ \E w \in QueueThreads : GateLeave(w)
  \/ \E w \in QueueThreads : \E r \in Responses : ProviderRespond(w, r)
  \/ \E w \in QueueThreads : BackoffDone(w)
  \/ \E w \in QueueThreads : ReleaseStats(w)
  \/ \E w \in QueueThreads : ReleaseSemaphore(w)
  \/ \E w \in QueueThreads : DirectReturn(w)

SpecGate == InitEmbed /\ [][NextGate]_vars

\* _get_embedding_direct called with max_retries from 1 to MaxMaxRetries,
\* every answer of the Provider at every attempt.
NextRetry ==
  \/ \E w \in RetryThreads : \E m \in 1..MaxMaxRetries : RetryCall(w, m)
  \/ \E w \in RetryThreads : AcquireEnqueue(w)
  \/ \E w \in RetryThreads : AcquireSemaphore(w)
  \/ \E w \in RetryThreads : AcquireStats(w)
  \/ \E w \in RetryThreads : AcquireGate(w)
  \/ \E w \in RetryThreads : \E r \in Responses : ProviderRespond(w, r)
  \/ \E w \in RetryThreads : BackoffDone(w)
  \/ \E w \in RetryThreads : ReleaseStats(w)
  \/ \E w \in RetryThreads : ReleaseSemaphore(w)
  \/ \E w \in RetryThreads : DirectReturn(w)

SpecRetry == InitEmbed /\ [][NextRetry]_vars

\* The nesting of the pools and the locks: the threads of the file-level
\* pool (the callers) call embed_batch, each call runs its misses in a
\* pool of its own, and every request goes through the semaphore and the
\* interval lock, every step of acquire and release on its own.
LiveInputs(c) == IF c = "c1" THEN {<<<<"b">>, <<"a">>>>} ELSE {<<<<"a">>>>}
LiveTasks == {<<"c1", 1>>, <<"c1", 2>>, <<"c2", 1>>}
LiveResponses == {"ok", "500", "404"}
NextLive ==
  \/ \E c \in Callers : \E texts \in LiveInputs(c) : \E p \in Prefixes : EmbedBatch(c, texts, p)
  \/ \E c \in Callers : \E j \in 1..2 : TaskStart(c, j)
  \/ \E w \in LiveTasks : AcquireEnqueue(w)
  \/ \E w \in LiveTasks : AcquireSemaphore(w)
  \/ \E w \in LiveTasks : AcquireStats(w)
  \/ \E w \in LiveTasks : LockEnter(w)
  \/ \E w \in LiveTasks : LockLeave(w)
  \/ \E w \in LiveTasks : \E r \in LiveResponses : ProviderRespond(w, r)
  \/ \E w \in LiveTasks : BackoffDone(w)
  \/ \E w \in LiveTasks : ReleaseStats(w)
  \/ \E w \in LiveTasks : ReleaseSemaphore(w)
  \/ \E c \in Callers : BatchStore(c)
  \/ \E c \in Callers : BatchReturn(c)
  \/ \E c \in Callers : CallDone(c)

\* Every thread that can take a step takes one, a thread that could take
\* the semaphore or the interval lock from some time on gets it, and the
\* Provider answers every request.
FairLive ==
  /\ \A c \in Callers :
       WF_vars(\/ \E j \in 1..2 : TaskStart(c, j)
               \/ BatchStore(c) \/ BatchReturn(c) \/ CallDone(c))
  /\ \A w \in LiveTasks :
       /\ WF_vars(\/ AcquireEnqueue(w) \/ AcquireStats(w) \/ LockLeave(w)
                  \/ \E r \in LiveResponses : ProviderRespond(w, r)
                  \/ BackoffDone(w) \/ ReleaseStats(w) \/ ReleaseSemaphore(w))
       /\ WF_vars(AcquireSemaphore(w))
       /\ WF_vars(LockEnter(w))

SpecLive == InitPipe /\ [][NextLive]_vars /\ FairLive

\* process_file runs started by process_files_parallel and by watcher
\* events, over files the environment rewrites and deletes.
NextPipe ==
  \/ \E p \in Written : \E c \in Contents : \E tick \in {0, 1} : WriteFile(p, c, tick)
  \/ \E p \in Written : DeleteFile(p)
  \/ \E fps \in ScanInputs : \E d \in BOOLEAN : ProcessFilesParallel(fps, d)
  \/ \E r \in PoolThreads : \E ok \in BOOLEAN : BatchProcessFile(r, ok)
  \/ \E r \in Runs \ PoolThreads : \E p \in Written : \E ok \in BOOLEAN : HotPathProcessFile(r, p, ok)
  \/ \E r \in Runs : \E ok \in BOOLEAN : ReadFile(r, ok)
  \/ \E r \in Runs : \E ok \in BOOLEAN : StatAndChunk(r, ok)
  \/ \E r \in Runs : \E ok \in BOOLEAN : EmbedStep(r, ok, FALSE)
  \/ \E r \in Runs : \E ok \in BOOLEAN : UpsertDelete(r, ok)
  \/ \E r \in Runs : \E ok \in BOOLEAN : UpsertAdd(r, ok)
  \/ \E r \in Runs : \E ok \in BOOLEAN : UpdateFileCache(r, ok)
  \/ \E r \in Runs : FilesBatchCollect(r)
  \/ FilesBatchReturn
  \/ FilesBatchDone
  \/ \E r \in Runs : HotPathReturn(r)

SpecPipe == InitPipe /\ [][NextPipe]_vars

\* process_files_batch with two pool threads that complete in any order,
\* over files the environment rewrites; no watcher events.  embed_batch
\* may fall back to zero vectors.
NextBatch ==
  \/ \E p \in Written : \E c \in Contents : WriteFile(p, c, 1)
  \/ \E fps \in ScanInputs : \E d \in BOOLEAN : ProcessFilesParallel(fps, d)
  \/ \E r \in Runs : \E ok \in BOOLEAN : BatchProcessFile(r, ok)
  \/ \E r \in Runs : \E ok \in BOOLEAN : ReadFile(r, ok)
  \/ \E r \in Runs : \E ok \in BOOLEAN : StatAndChunk(r, ok)
  \/ \E r \in Runs : \E ok, zero \in BOOLEAN : EmbedStep(r, ok, zero)
  \/ \E r \in Runs : \E ok \in BOOLEAN : UpsertDelete(r, ok)
  \/ \E r \in Runs : \E ok \in BOOLEAN : UpsertAdd(r, ok)
  \/ \E r \in Runs : \E ok \in BOOLEAN : UpdateFileCache(r, ok)
  \/ \E r \in Runs : FilesBatchCollect(r)
  \/ FilesBatchReturn
  \/ FilesBatchDone

SpecBatch == InitPipe /\ [][NextBatch]_vars

\* The cold path: schedule_cold_path called at any time for two files,
\* the loop of run_cold_path_loop and the clock.
NextCold ==
  \/ Tick
  \/ \E p \in ColdPaths : ScheduleColdPath(p)
  \/ ColdPathLoop

SpecCold == InitPipe /\ [][NextCold]_vars

\* The cold path with the statements of the loop interleaved with
\* schedule_cold_path of the watcher's thread.
NextColdLoop ==
  \/ Tick
  \/ \E p \in ColdPaths : ScheduleColdPath(p)
  \/ LoopReadNow
  \/ LoopTake
  \/ LoopSubmit

SpecColdLoop == InitPipe /\ [][NextColdLoop]_vars

SpecChunk == InitPipe /\ [][NextChunk]_vars

SpecSplit == InitPipe /\ [][NextSplit]_vars

\* _split_large_content called with lists of up to MaxLoopLines short or
\* long lines in chunkers of every configuration of ChunkConfigs; the
\* thread that runs the loop keeps running.
NextLarge ==
  \/ \E n \in 0..MaxLoopLines : \E kind \in {"s", "S"} : \E config \in ChunkConfigs :
        CallSplitLargeContent(Repeat(n, kind), config)
  \/ SplitIteration

SpecLarge == InitPipe /\ [][NextLarge]_vars /\ WF_vars(SplitIteration)

\* The watcher's thread: create and modify events on the files of
\* EventPaths, filtered by on_modified, and the hot path of those that pass.
NextEvents ==
  \/ \E p \in EventPaths : OnModifiedReturn(p)
  \/ \E r \in Runs \ PoolThreads : \E p \in EventPaths : \E ok \in BOOLEAN : HotPathProcessFile(r, p, ok)
  \/ \E r \in Runs \ PoolThreads : \E ok \in BOOLEAN : ReadFile(r, ok)
  \/ \E r \in Runs \ PoolThreads : \E ok \in BOOLEAN : StatAndChunk(r, ok)
  \/ \E r \in Runs \ PoolThreads : \E ok \in BOOLEAN : EmbedStep(r, ok, FALSE)
  \/ \E r \in Runs \ PoolThreads : \E ok \in BOOLEAN : UpsertDelete(r, ok)
  \/ \E r \in Runs \ PoolThreads : \E ok \in BOOLEAN : UpsertAdd(r, ok)
  \/ \E r \in Runs \ PoolThreads : \E ok \in BOOLEAN : UpdateFileCache(r, ok)
  \/ \E r \in Runs \ PoolThreads : HotPathReturn(r)

SpecEvents == InitPipe /\ [][NextEvents]_vars

\* Two process_file runs on one path at the same time: a thread of the
\* pool of process_files_batch and the watcher's thread, while the file is
\* rewritten with another content between their reads.
RacePath == "A.cs"
RaceContents == {"v1", "v2"}
NextRace ==
  \/ \E c \in RaceContents : WriteFile(RacePath, c, 1)
  \/ \E d \in BOOLEAN : ProcessFilesParallel(<<RacePath>>, d)
  \/ \E r \in PoolThreads : BatchProcessFile(r, TRUE)
  \/ \E r \in Runs \ PoolThreads : HotPathProcessFile(r, RacePath, TRUE)
  \/ \E r \in Runs : ReadFile(r, TRUE)
  \/ \E r \in Runs : StatAndChunk(r, TRUE)
  \/ \E r \in Runs : EmbedStep(r, TRUE, FALSE)
  \/ \E r \in Runs : \E ok \in BOOLEAN : UpsertDelete(r, ok)
  \/ \E r \in Runs : UpsertAdd(r, TRUE)
  \/ \E r \in Runs : UpdateFileCache(r, TRUE)
  \/ \E r \in Runs : FilesBatchCollect(r)
  \/ FilesBatchReturn
  \/ FilesBatchDone
  \/ \E r \in Runs : HotPathReturn(r)

SpecRace == InitPipe /\ [][NextRace]_vars

\* The cold path with the tasks of the executor: the loop, the clock,
\* schedule_cold_path while there is time left for the debounce interval
\* to pass, and _run_architect with a Provider that answers or fails.
NextArchitect ==
  \/ Tick
  \/ \E p \in ColdPaths : watch.now < MaxTime - DebounceSeconds /\ ScheduleColdPath(p)
  \/ LoopReadNow
  \/ LoopTake
  \/ LoopSubmit
  \/ \E p \in ColdPaths : \E ok \in BOOLEAN : ArchitectStart(p, ok)
  \/ \E p \in ColdPaths : \E outcome \in GenerateOutcomes : ArchitectGenerate(p, outcome)
  \/ \E p \in ColdPaths : \E ok \in BOOLEAN : ArchitectUpdate(p, ok)

SpecArchitect == InitPipe /\ [][NextArchitect]_vars

\* The loop thread and the workers of the executor are scheduled fairly,
\* the clock advances, and the Provider answers every generate call.
FairArchitect ==
  /\ WF_vars(Tick)
  /\ WF_vars(LoopReadNow) /\ WF_vars(LoopTake) /\ WF_vars(LoopSubmit)
  /\ \A p \in ColdPaths :
       /\ WF_vars(\E ok \in BOOLEAN : ArchitectStart(p, ok))
       /\ WF_vars(\E outcome \in GenerateOutcomes : ArchitectGenerate(p, outcome))
       /\ WF_vars(\E ok \in BOOLEAN : ArchitectUpdate(p, ok))

SpecArchitectLive == InitPipe /\ [][NextArchitect]_vars /\ FairArchitect

(***************************************************************************)
(* Properties of the rate-limited queue and of the embedding engine.       *)
(***************************************************************************)
Batches == {c \in Callers : call[c].kind = "batch"}
Returned == {c \in Callers : call[c].pc = "ret" /\ ~call[c].raised}
Misses(c) == 1..Len(call[c].uidx)
IsMiss(c, i) == \E j \in Misses(c) : call[c].uidx[j] = i

RECURSIVE SumTries(_, _)
SumTries(c, n) == IF n = 0 THEN 0 ELSE task[<<c, n>>].tries + SumTries(c, n - 1)
\* the POST requests the Provider received for the call of c
ProviderCalls(c) == SumTries(c, MaxBatch)

\* C1: with max_concurrent = k, at most k requests are past acquire and not
\* yet released, whatever the threads do and however the requests end.
C1_AtMostKInFlight == Cardinality(InFlight) <= MaxConcurrent

\* C1 witness: k requests are in flight, one of them in retry backoff, and
\* another thread is blocked in acquire.
C1_Witness ==
  /\ Cardinality(InFlight) = MaxConcurrent
  /\ \E w \in InFlight : task[w].pc = "sleep" /\ task[w].attempt > 0
  /\ \E w \in Tasks : task[w].pc = "wait"

\* C2: a text whose every request was answered 500 gets exactly
\* max_retries attempts and then fails; in the returned batch that item
\* alone is the failed one: each sibling holds its own result.
C2_RetryBound ==
  /\ \A w \in Tasks :
       (task[w].pc = "done" /\ task[w].only500) =>
          (task[w].tries = MaxRetries /\ task[w].out = "err")
  /\ \A c \in Batches \cap Returned : \A j \in Misses(c) :
       task[<<c, j>>].only500 =>
          \A k \in Misses(c) \ {j} :
             task[<<c, k>>].out = "ok" =>
                call[c].res[call[c].uidx[k]] = ProviderVector(task[<<c, k>>].text)

\* C2 witness: a returned batch in which one item was overloaded on every
\* attempt and a sibling was embedded.
C2_Witness ==
  \E c \in Batches \cap Returned : \E j, k \in Misses(c) :
     /\ task[<<c, j>>].only500 /\ task[<<c, j>>].out = "err"
     /\ task[<<c, k>>].out = "ok"
     /\ call[c].res[call[c].uidx[k]] = ProviderVector(task[<<c, k>>].text)

\* C7: embed_batch issues exactly one Provider call per distinct uncached
\* text (stated for the calls in which every request succeeded at once).
C7_OneCallPerDistinctText ==
  \A c \in Batches \cap Returned :
     (\A j \in Misses(c) : task[<<c, j>>].out = "ok" /\ task[<<c, j>>].tries = 1) =>
        ProviderCalls(c) = Cardinality({call[c].texts[call[c].uidx[j]] : j \in Misses(c)})

\* C8: embed_batch returns one vector per input, in input order: the
\* cached vector at a hit, the vector obtained for that text at a miss;
\* only the misses were dispatched, and their results are in the cache
\* from the store step on.
C8_OrderedMerge ==
  \A c \in Batches :
     /\ \A j \in Misses(c) :
          /\ HashContent(call[c].texts[call[c].uidx[j]]) \notin DOMAIN call[c].cached
          /\ task[<<c, j>>].text = call[c].texts[call[c].uidx[j]]
     /\ \A i \in 1..Len(call[c].texts) :
          HashContent(call[c].texts[i]) \notin DOMAIN call[c].cached => IsMiss(c, i)
     /\ \A w \in TasksOf(c) : task[w].pc # "none" => w[2] \in Misses(c)
     /\ call[c].pc \in {"merge", "ret"} =>
          \A j \in Misses(c) : cache[HashContent(task[<<c, j>>].text)].kind # "none"
     /\ call[c].pc = "ret" =>
          /\ Len(call[c].res) = Len(call[c].texts)
          /\ \A i \in 1..Len(call[c].texts) :
               IF IsMiss(c, i)
                 THEN \E j \in Misses(c) :
                        /\ call[c].uidx[j] = i
                        /\ call[c].res[i] = FutureResult(task[<<c, j>>])
                 ELSE call[c].res[i] = call[c].cached[HashContent(call[c].texts[i])]

\* C8 witness: a returned batch with a hit before a miss.
C8_Witness ==
  \E c \in Batches \cap Returned : \E i, k \in 1..Len(call[c].texts) :
     /\ i < k /\ ~IsMiss(c, i) /\ IsMiss(c, k)
     /\ call[c].res[k].kind = "provider"

\* text i of the call of c was found in a cache: no request was made for it
WasCached(c, i) ==
  IF call[c].kind = "batch" THEN ~IsMiss(c, i) ELSE task[<<c, 1>>].pc = "none"

\* C9: once a text is cached, every later call for the same text returns
\* that same vector without a Provider call.
C9_SameVectorOnceCached ==
  \A c \in Returned : \A i \in 1..Len(call[c].texts) :
     WasCached(c, i) =>
        call[c].res[i] = firstVec[HashContent(call[c].texts[i])]

\* C10: the position of an item whose retries are exhausted holds a zero
\* vector of the Provider's dimensionality.
C10_ZeroVectorOfProviderDim ==
  \A c \in Batches \cap Returned : \A j \in Misses(c) :
     task[<<c, j>>].out = "err" =>
        /\ call[c].res[call[c].uidx[j]].kind = "zero"
        /\ call[c].res[call[c].uidx[j]].dim = providerDim

(***************************************************************************)
(* Properties of process_file, of the change cache and of the batch.       *)
(***************************************************************************)
\* the messages of the failures that can happen inside process_file
FailureSteps == {"get_chunker", "read", "stat", "chunk", "embed", "upsert", "update_file"}

\* C3: process_file never raises: a run that has ended has returned a
\* tuple, a failure in any step is the tuple (0, 0, message), and no batch
\* is ever aborted by a failing file.
C3_NeverRaises ==
  /\ \A r \in Runs : run[r].pc = "ret" =>
       /\ run[r].result.kind = "returned"
       /\ run[r].result.error \in FailureSteps =>
            (run[r].result.success = 0 /\ run[r].result.chunks = 0)
       /\ run[r].result.success = 1 => run[r].result.error = ""
  /\ ~batch.aborted

\* C3 witness: a batch has collected a failed file and an indexed file,
\* and another failure is waiting to be collected.
C3_Witness ==
  /\ batch.pc = "running"
  /\ batch.failed >= 1
  /\ batch.files >= 1
  /\ \E r \in PoolThreads :
       /\ run[r].pc = "ret"
       /\ run[r].result = Return(0, 0, "upsert")

\* C4: the ChangeCache record of a path changes only in a step of a run on
\* that path whose upsert has returned successfully, and that run returns
\* success; a run that ends in a failure leaves the ChangeCache as it was.
C4_CacheAfterUpsert ==
  [][/\ \A p \in Paths : fileCache'[p] # fileCache[p] =>
          \E r \in Runs : /\ run[r].path = p
                          /\ run[r].pc = "update"
                          /\ run[r].upserted
                          /\ run'[r].result.success = 1
     /\ \A r \in Runs : (run'[r].pc = "ret" /\ run[r].pc # "ret" /\ run'[r].result.success = 0) =>
          fileCache' = fileCache]_vars

\* C4 witness: a run has written the record of its path after its upsert.
C4_Witness ==
  \E r \in Runs :
     /\ run[r].pc = "ret"
     /\ run[r].upserted
     /\ run[r].result.success = 1
     /\ fileCache[run[r].path] = RecordOf(run[r].content, run[r].mtime)
     /\ RowsOf(run[r].path, run[r].content) \subseteq store

\* the path lists get_changed_files is checked on
PathLists == ScanInputs \cup {<< >>, <<"A.cs", "B.cs", "A.cs">>, <<"N.txt", "A.cs", "B.cs">>}
\* a path without a record, that cannot be stat-ed, or whose (mtime, size)
\* differs from the recorded pair
IsChanged(p) ==
  \/ ~fileCache[p].present
  \/ ~fs[p].exists
  \/ <<fs[p].mtime, Size(fs[p].content)>> # <<fileCache[p].mtime, fileCache[p].size>>

\* C5: get_changed_files returns exactly the changed paths of its input,
\* in input order.
C5_ExactlyChanged ==
  \A fps \in PathLists : GetChangedFiles(fps, fileCache, fs) = SelectSeq(fps, IsChanged)

\* C5 witness: of three paths one is recorded and unchanged, one has no
\* record and one is recorded with the same mtime and another size.
C5_Witness ==
  /\ fileCache["A.cs"].present
  /\ fs["A.cs"].exists
  /\ fs["A.cs"].mtime = fileCache["A.cs"].mtime
  /\ Size(fs["A.cs"].content) # fileCache["A.cs"].size
  /\ GetChangedFiles(<<"B.cs", "N.txt", "A.cs">>, fileCache, fs) = <<"N.txt", "A.cs">>

\* C6: a run of process_file on a file whose content, mtime and size are
\* those of its ChangeCache record performs no VectorStore delete or insert.
C6_UnchangedIsNoOp ==
  \A r \in Runs : run[r].same => ~run[r].touched

\* a run of process_file that has returned success and had its path to itself
SucceededAlone(r) ==
  /\ run[r].pc = "ret"
  /\ run[r].result.kind = "returned"
  /\ run[r].result.success = 1
  /\ run[r].alone

\* C11: after process_file(p) has returned success with no concurrent
\* operation on p, the records of p are exactly the records built from the
\* chunks of this run, also when the run produced no chunk.
C11_ExactlyThisRunsChunks ==
  \A r \in Runs : SucceededAlone(r) => RowsFor(run[r].path) = RowsOf(run[r].path, run[r].content)

\* C12: while upsert_chunks of process_file(p) runs, with no other
\* operation on p, a reader finds for p the complete previous record set
\* or the complete new one.
C12_ReaderSeesOldOrNew ==
  \A r \in Runs :
     (run[r].pc \in {"delete", "add"} /\ run[r].alone) =>
        RowsFor(run[r].path) \in {run[r].before, RowsOf(run[r].path, run[r].content)}

\* C13: a ChangeCache record describes one file version: its hash, size
\* and chunk count are those of one content.
C13_RecordOfOneVersion ==
  \A p \in Paths : fileCache[p].present =>
     \E c \in Contents : /\ fileCache[p].hash = ContentHash(c)
                         /\ fileCache[p].size = Size(c)
                         /\ fileCache[p].chunks = NumChunks(c)

\* the runs of the batch that are not collected yet
InBatch == {r \in Runs : run[r].origin = "batch"}

\* C14: process_files_batch counts every path once: at every moment the
\* collected files and failures, the runs in flight and the paths not yet
\* taken make the number of paths submitted; when it returns,
\* filesProcessed + filesFailed is the number of paths and totalChunks is
\* the sum of the chunk counts of the succeeded files.
C14_BatchTotals ==
  /\ batch.pc = "running" =>
       batch.files + batch.failed + Cardinality(InBatch) + Len(batch.queue) = batch.n
  /\ batch.pc = "done" =>
       (InBatch = {} =>
          /\ batch.files + batch.failed = batch.n
          /\ batch.chunks = batch.sum)
  /\ batch.chunks <= batch.sum

\* C14 witness: a batch of three paths has returned with two indexed files,
\* four chunks and one failure.
C14_Witness ==
  /\ batch.pc = "done"
  /\ InBatch = {}
  /\ batch.n = 3
  /\ batch.files = 2
  /\ batch.failed = 1
  /\ batch.chunks = 4

(***************************************************************************)
(* Properties of the watcher: the hot path and the cold path.              *)
(***************************************************************************)
\* C15: once the handler has finished with an event that passed the
\* filters (process_file has run for its path), the handler is idle again
\* and the path has been placed in the cold-path pending map.
C15_HotThenColdThenIdle ==
  (watch.last # "-" /\ watch.handler # "hot") =>
     /\ watch.handler = "idle"
     /\ watch.pending[watch.last] # NoTime \/ watch.subs[watch.last] > 0

C17_SameChunksOnEveryCall ==
  (chunker.pc = "chunked" /\ chunker.prev.known) => chunker.chunks = chunker.prev.chunks

\* the lines of the file that lie in the [start_line, end_line] range of a
\* chunk of the sequence (line numbers count from 0)
CoveredLines(lines, chunks) ==
  {k \in 0..(Len(lines) - 1) :
     \E i \in 1..Len(chunks) : chunks[i].start_line <= k /\ k <= chunks[i].end_line}

\* C18: for a non-empty file, the line ranges of the chunks handed to
\* embed_batch cover every line of the file.
C18_EveryLineCovered ==
  (chunker.pc = "handed" /\ chunker.file # << >>) =>
     CoveredLines(chunker.file, chunker.handed) = 0..(Len(chunker.file) - 1)

\* ceil(a / b) for positive b
CeilDiv(a, b) == (a + b - 1) \div b

\* the file is structureless: no line declares a class, a method or a
\* property, and every line is long enough for a window of one line to
\* reach the minimum size
IsStructureless(lines) ==
  \A i \in 1..Len(lines) :
     /\ ~lines[i].cls /\ ~lines[i].meth /\ ~lines[i].prop
     /\ lines[i].len >= MinChunkChars

\* C19: a structureless file of L > max_chunk_lines lines is returned as
\* exactly ceil((L - overlap) / (window - overlap)) chunks, all of type
\* "block".
C19_WindowCount ==
  (/\ chunker.pc = "chunked"
   /\ IsStructureless(chunker.file)
   /\ Len(chunker.file) > MaxChunkLines) =>
     /\ \A i \in 1..Len(chunker.chunks) : chunker.chunks[i].chunk_type = "block"
     /\ Len(chunker.chunks) =
          CeilDiv(Len(chunker.file) - OverlapLines, MaxChunkLines - OverlapLines)

\* C20: every embedding text handed to embed_batch, those of the parts of
\* a re-split chunk included, is at most MAX_EMBEDDING_TEXT_LENGTH long.
C20_TextLengthBounded ==
  chunker.pc = "handed" =>
     \A i \in 1..Len(chunker.handed) : chunker.handed[i].textLen <= MaxEmbeddingTextLength

\* C21: a 4xx answer ends the call at once.  While the answer is being
\* handled the task is in the finally clause (never in a backoff sleep),
\* it has made one request in this iteration and has slept only between
\* the earlier iterations; the release gives the permit back and the
\* call ends with the error, without another request.
C21_ClientErrorFailsAtOnce ==
  /\ [](\A w \in Tasks : task[w].last = "404" =>
          /\ task[w].pc \in {"finally", "relsem"}
          /\ task[w].after = "raise"
          /\ task[w].tries = task[w].attempt + 1
          /\ task[w].sleeps = task[w].attempt
          /\ w \in InFlight)
  /\ [][\A w \in Tasks : (task[w].last = "404" /\ task'[w] # task[w]) =>
          \/ /\ task[w].pc = "finally"
             /\ task'[w] = [task[w] EXCEPT !.pc = "relsem"]
          \/ /\ task[w].pc = "relsem"
             /\ task'[w].pc = "done"
             /\ task'[w].out = "err"
             /\ task'[w].tries = task[w].tries
             /\ task'[w].sleeps = task[w].sleeps
             /\ sem' = sem + 1]_vars

\* C21 witness: the first request of a call was answered 404 and the task
\* is about to give back its permit while another task waits for one.
C21_Witness ==
  \E w, v \in Tasks :
     /\ task[w].last = "404"
     /\ task[w].pc = "relsem"
     /\ task[w].tries = 1
     /\ task[v].pc = "wait"
     /\ sem = 0

\* C22: every 5xx answer that is not the answer to the last attempt is
\* followed by a backoff sleep and another attempt.
C22_Every5xxRetried ==
  \A w \in Tasks :
     (task[w].last \in {"500", "503"} /\ task[w].attempt < task[w].max - 1) =>
        /\ task[w].after = "continue"
        /\ task[w].sleeps = task[w].attempt + 1

\* C29: a timeout or connect failure at attempt a is followed by a sleep
\* of min(2^a, 16) seconds and another attempt while a < max_retries - 1;
\* at the last attempt the error is raised without a sleep.  No call makes
\* more than max_retries requests.
C29_NetworkBackoff ==
  /\ [](\A w \in Tasks :
          /\ task[w].tries <= task[w].max
          /\ task[w].last = "timeout" =>
               IF task[w].attempt < task[w].max - 1
                 THEN /\ task[w].pc \in {"sleep", "finally", "relsem"}
                      /\ task[w].after = "continue"
                      /\ task[w].sleeps = task[w].attempt + 1
                      /\ task[w].wait = Min(2 ^ task[w].attempt, 16)
                 ELSE /\ task[w].pc \in {"finally", "relsem"}
                      /\ task[w].after = "raise"
                      /\ task[w].sleeps = task[w].attempt)
  /\ [][\A w \in Tasks :
          (task[w].last = "timeout" /\ task[w].pc = "relsem" /\ task'[w] # task[w]) =>
             IF task[w].attempt < task[w].max - 1
               THEN /\ task'[w].pc = "loop"
                    /\ task'[w].attempt = task[w].attempt + 1
                    /\ task'[w].sleeps = task[w].sleeps
               ELSE /\ task'[w].pc = "done"
                    /\ task'[w].out = "err"
                    /\ task'[w].sleeps = task[w].sleeps]_vars

\* C29 witness: the sixth attempt of a call with max_retries = 7 timed
\* out and the task sleeps 16 seconds, the cap (2^5 = 32).
C29_Witness ==
  \E w \in Tasks :
     /\ task[w].max = MaxMaxRetries
     /\ task[w].last = "timeout"
     /\ task[w].attempt = 5
     /\ task[w].pc = "sleep"
     /\ task[w].wait = 16

\* C23: the vectors a returned call took from the Provider or from the
\* EmbeddingCache are vectors of the model the engine is configured with.
C23_LookupOfOwnModel ==
  \A c \in Callers :
     call[c].pc = "ret" =>
        \A i \in 1..Len(call[c].res) :
           call[c].res[i].kind = "provider" => call[c].res[i].dim = providerDim

\* C24: when process_file(p) has returned the failure of the upsert and no
\* other run has worked on p meanwhile, get_changed_files of a list that
\* contains p returns p.
C24_FailedUpsertStaysChanged ==
  \A r \in Runs :
     (run[r].pc = "ret" /\ run[r].result = Return(0, 0, "upsert") /\ run[r].alone) =>
        GetChangedFiles(<<run[r].path>>, fileCache, fs) = <<run[r].path>>

\* C25: the step in which process_file finds no chunker for the path and
\* the step that collects this result change neither the table, nor the
\* ChangeCache, nor the count of failed files.
C25_UnsupportedIsSkipped ==
  [][\A r \in Runs :
       LET unsupported == Return(0, 0, "Unsupported file type")
       IN (run'[r] # run[r] /\ unsupported \in {run[r].result, run'[r].result}) =>
             /\ store' = store
             /\ fileCache' = fileCache
             /\ batch'.failed = batch.failed]_vars

\* C27: after process_file has returned for a changed file some of whose
\* chunks got the zero vector (no other run has worked on the file
\* meanwhile), get_changed_files of a list that contains the file returns
\* it.
C27_OverloadedFileStaysChanged ==
  \A r \in Runs :
     (run[r].pc = "ret" /\ run[r].zero /\ run[r].alone /\ ~run[r].same) =>
        GetChangedFiles(<<run[r].path>>, fileCache, fs) = <<run[r].path>>

\* the items of a batch call whose _get_embedding_direct raised: the
\* entries of the errors list of _embed_parallel
FailedItems(c) == {j \in Misses(c) : task[<<c, j>>].out = "err"}

\* C26: the number of failed items of a returned embed_batch call can be
\* read from what the call returned (the engine's statistics are the same
\* for both readers): two returned calls with the same result have the
\* same number of failed items.
C26_FailureCountReadable ==
  \A c, d \in Batches \cap Returned :
     call[c].res = call[d].res => Cardinality(FailedItems(c)) = Cardinality(FailedItems(d))

\* C28: two consecutive passages through the interval gate are at least
\* min_interval apart, with more threads than permits; a thread whose
\* request is dispatched holds a permit and has left the gate, which keeps
\* the time of a passage.
C28_PassagesSpaced ==
  /\ gate.prev # Never => gate.pass - gate.prev >= MinInterval
  /\ gate.pass # Never => gate.last = gate.pass
  /\ \A w \in Tasks : task[w].pc = "post" =>
        /\ gate.lock # w
        /\ gate.pass # Never /\ gate.pass <= gate.now
        /\ sem + Cardinality(InFlight) = MaxConcurrent
        /\ Cardinality(InFlight) <= MaxConcurrent

\* C28 witness: a thread had to sleep at the gate: it passed exactly
\* min_interval after the passage before it, while a second thread holds
\* the other permit and a third waits for one.
C28_Witness ==
  \E w, v, u \in Tasks :
     /\ task[w].pc = "post"
     /\ task[v].pc \in {"gate", "post"}
     /\ task[u].pc = "wait"
     /\ w # v
     /\ gate.prev # Never
     /\ gate.pass - gate.prev = MinInterval
     /\ gate.pass = gate.now

\* C30: when the loop submits a file, more than DEBOUNCE_SECONDS have
\* passed since the file's most recent scheduling.
C30_SubmitAfterDebounce ==
  [][\A p \in ColdPaths :
       (watch.loop.pc = "submit" /\ watch'.loop.pc = "sleep" /\ p \in watch.loop.to_process) =>
          watch.now - watch.sched[p] > DebounceSeconds]_vars

(***************************************************************************)
(* Properties of the cold path with its analysis tasks.                    *)
(***************************************************************************)
\* C31: while the loop runs, a file placed in the pending map is, once no
\* more scheduling of it happens, submitted for analysis, and its analysis
\* task ends, with or without a summary, so that the file is idle again;
\* a failed analysis does not stop the loop, which keeps iterating.
C31_PendingIsAnalysed ==
  /\ \A p \in ColdPaths :
        (watch.pending[p] # NoTime) ~>
           (/\ watch.pending[p] = NoTime
            /\ watch.subs[p] > 0
            /\ p \notin watch.loop.to_process
            /\ watch.arch[p] = IdleArch)
  /\ []<>(watch.loop.pc = "read")

\* C31 witness: a file that was pending has been submitted and its task
\* has ended after the Provider failed, while another file is pending.
C31_Witness ==
  \E p, q \in ColdPaths :
     /\ watch.subs[p] > 0
     /\ watch.pending[p] = NoTime
     /\ watch.arch[p] = IdleArch
     /\ watch.summary[p] \in ErrorTexts
     /\ watch.pending[q] # NoTime

\* C38: when the Provider's generate call has failed in the analysis of a
\* file, the step that ends the task leaves the summary of the file's
\* rows as it was.
C38_FailedGenerateWritesNothing ==
  [][\A p \in ColdPaths :
       (watch.arch[p].pc = "update" /\ watch.arch[p].failed) =>
          watch'.summary[p] = watch.summary[p]]_vars

\* C32: split_text_into_chunks returns, for every text and max_length, a
\* non-empty list of sub-texts of at most max_length characters each, and
\* the text _get_embedding_direct goes on with is never longer than
\* MAX_EMBEDDING_TEXT_LENGTH.
C32_SubTextsFit ==
  /\ chunker.split.called =>
        /\ chunker.split.chunks # << >>
        /\ \A i \in 1..Len(chunker.split.chunks) :
              chunker.split.chunks[i] <= chunker.split.max_length
  /\ chunker.direct.called =>
        /\ chunker.direct.safe_text.kind = "sent"
        /\ chunker.direct.safe_text.len <= MaxEmbeddingTextLength

\* C33: the event filter accepts exactly the files the chunker registry
\* supports: an event on a path that is not ignored is skipped only when
\* no chunker is registered for the path, and a path that was processed
\* has a chunker.
C33_FilterIsRegistry ==
  /\ \A p \in watch.skipped : ~Ignored(p) => ~HasChunker(p)
  /\ watch.last # "-" => HasChunker(watch.last)

(***************************************************************************)
(* Properties of the admission slots of RateLimitedQueue.                  *)
(***************************************************************************)
\* C34: active_requests stays between 0 and max_concurrent and
\* queued_requests is never negative; every acquire is matched by one
\* release on every path of _get_embedding_direct, so that the permits
\* taken are those of the tasks between acquire and release; and when no
\* request is waiting or in flight the counters are 0 and every permit is
\* free.
C34_SlotsBalanced ==
  /\ 0 <= stats.active /\ stats.active <= MaxConcurrent
  /\ stats.queued >= 0
  /\ sem >= 0
  /\ sem + Cardinality(InFlight) = MaxConcurrent
  /\ (\A w \in Tasks : task[w].pc \in {"none", "queued", "loop", "done"}) =>
        /\ stats.active = 0
        /\ stats.queued = 0
        /\ sem = MaxConcurrent

\* C34 witness: no request is in flight after one call has returned a
\* vector after a retry, one has failed on a client error and one has
\* used up its retries.
C34_Witness ==
  /\ \A w \in QueueThreads : task[w].pc = "done"
  /\ \E w \in QueueThreads : task[w].out = "ok" /\ task[w].sleeps > 0
  /\ \E w \in QueueThreads : task[w].out = "err" /\ task[w].tries = 1
  /\ \E w \in QueueThreads : task[w].out = "err" /\ task[w].tries = MaxRetries
  /\ sem = MaxConcurrent

\* C39: a request that sleeps in its retry backoff holds no admission
\* slot: the permits taken are those of the requests in flight that are
\* not backing off.
C39_BackoffHoldsNoSlot ==
  sem + Cardinality({w \in InFlight : task[w].pc # "sleep"}) = MaxConcurrent

\* C36: every entry of the persistent cache is a vector the Provider
\* returned for the text of its hash; the zero vector of a failed item is
\* never stored.
C36_CacheHoldsProviderVectors ==
  \A h \in Hashes :
     cache[h].kind # "none" =>
        /\ cache[h].kind = "provider"
        /\ HashContent(cache[h].of) = h

\* C35: when the Provider answers every request, every embed_batch call
\* returns and every request waiting in acquire is admitted: the pool of
\* the files, the pool of each batch, the semaphore and the interval lock
\* do not block one another for ever.
C35_EveryCallReturns ==
  /\ \A c \in Callers : (call[c].pc = "parallel") ~> (call[c].pc = "ret")
  /\ \A w \in LiveTasks : (task[w].pc = "wait") ~> (task[w].pc = "post")

\* C35 witness: both callers are inside embed_batch, two requests hold
\* the permits, one of them holds the interval lock, and a third waits
\* for a permit.
C35_Witness ==
  /\ \A c \in Callers : call[c].pc = "parallel"
  /\ sem = 0
  /\ gate.lock # NoTask
  /\ \E w \in Tasks : task[w].pc = "wait"

\* C37: when two process_file runs on the same path have overlapped and
\* both have returned success, the table holds for the path exactly the
\* records of one of the two runs, and the ChangeCache record of the path
\* is the one that run wrote.
C37_OneRunsRecords ==
  \A r1, r2 \in Runs :
     (/\ r1 # r2
      /\ run[r1].path = run[r2].path
      /\ ~run[r1].alone /\ ~run[r2].alone
      /\ \A r \in {r1, r2} : /\ run[r].pc = "ret"
                              /\ run[r].result.kind = "returned"
                              /\ run[r].result.success = 1
                              /\ run[r].upserted) =>
        \E r \in {r1, r2} :
           /\ RowsFor(run[r].path) = RowsOf(run[r].path, run[r].content)
           /\ fileCache[run[r].path] = RecordOf(run[r].content, run[r].mtime)

\* C40: _split_large_content returns for every list of lines and every
\* configured pair (max_chunk_lines, overlap_lines), and the chunks it
\* appends have strictly increasing start lines.
C40_SplitLoopTerminates ==
  /\ (chunker.large.pc = "while") ~> (chunker.large.pc = "done")
  /\ [](\A k \in 1..(Len(chunker.large.starts) - 1) :
          chunker.large.starts[k] < chunker.large.starts[k + 1])

====
